---- MODULE Spec2Model ----
(***************************************************************************)
(* A model of the examfleet-be request handlers (AWS Lambda functions).    *)
(* Each handler is translated from its app.py; the external services it    *)
(* calls (DynamoDB tables, S3 buckets, the HTTP fetch, the language model, *)
(* the Firebase Admin SDK) are modelled by the documented behaviour of the *)
(* call the handler makes.                                                 *)
(*                                                                         *)
(* Handlers share no state but the stores, so each group of handlers has   *)
(* its own specification over the same variables:                          *)
(*   SpecScore     quiz submission, one invocation at a time               *)
(*   SpecQuiz      concurrent quiz submissions and performance queries     *)
(*   SpecProgress  concurrent progress updates                             *)
(*   SpecPapers    the document handler                                    *)
(*   SpecInput     the six handlers that parse a request body              *)
(*   SpecConfig    the four handlers that require a setting                *)
(*   SpecJwt       token verification, one invocation at a time            *)
(*   SpecJwtRace   token verification, invocations interleaved             *)
(*   SpecSummary   the summarizer                                          *)
(*   SpecCards     the flashcard generator                                 *)
(*   SpecExtract   the PDF text extraction                                 *)
(***************************************************************************)
EXTENDS Integers, Sequences, FiniteSets, TLC

VARIABLES
    env,            \* os.environ of the deployment: the set of settings that are set
    now,            \* int(time.time()): the clock, in epoch seconds
    resultsTable,   \* the DynamoDB table QUIZ_RESULTS_TABLE: a set of items
    sub,            \* submit_quiz: the locals of each invocation in flight
    submissions,    \* history: the number of put_item calls that succeeded
    progressTable,  \* the DynamoDB table PROGRESS_TABLE: a set of items
    prog,           \* save_xp_badge_progress: the locals of each invocation in flight
    updates,        \* history: per user, the number of update_item calls made and their xp in sum
    uploads,        \* the S3 bucket UPLOADS_BUCKET_NAME: the keys of its objects
    openai,         \* whether "import openai" succeeded in this build
    uuids,          \* the number of uuid4() values drawn so far
    bucket,         \* the S3 bucket BUCKET_NAME: its keys, in the order S3 lists them
    dl,             \* papers_handler: the locals of the download in flight
    initialized,    \* jwt_verify: the module global _initialized
    apps,           \* firebase_admin: the names of the apps the process has initialized
    jwt,            \* jwt_verify: the locals of each invocation in flight
    sm,             \* summarize_content: the locals of the invocation in flight
    ex,             \* extract_text: the locals of the invocation in flight
    extracted,      \* the S3 bucket EXTRACTED_BUCKET_NAME: its objects, [key, body]
    resp,           \* the outcome of the last handler that ran in one step
    calls           \* the calls to external services made by the last handler step

quizVars == <<resultsTable, sub, submissions>>
progVars == <<progressTable, prog, updates>>
llmVars == <<openai, uuids>>
papersVars == <<bucket, dl>>
jwtVars == <<initialized, apps, jwt>>
extractVars == <<ex, extracted>>
newVars == <<sm, extractVars>>
vars == <<env, now, resp, calls, quizVars, progVars, uploads, llmVars, papersVars, jwtVars, newVars>>

\* What the handlers of one group leave alone.
NotQuiz == <<progVars, uploads, llmVars, papersVars, jwtVars, newVars>>
NotProgress == <<quizVars, uploads, llmVars, papersVars, jwtVars, newVars>>
NotUpload == <<quizVars, progVars, llmVars, papersVars, jwtVars, newVars>>
NotLlm == <<quizVars, progVars, uploads, openai, papersVars, jwtVars, newVars>>
NotPapers == <<quizVars, progVars, uploads, llmVars, jwtVars, newVars>>
NotJwt == <<quizVars, progVars, uploads, llmVars, papersVars, newVars>>
NotSummary == <<quizVars, progVars, uploads, llmVars, papersVars, jwtVars, extractVars>>
NotExtract == <<quizVars, progVars, uploads, llmVars, papersVars, jwtVars, sm>>

(***************************************************************************)
(* Bounds of the model.                                                    *)
(***************************************************************************)
MaxLen == 2          \* longest answers / correctAnswers list
MaxTime == 1         \* the clock runs over 0..MaxTime
MaxSubmissions == 3  \* submissions that reach the store in one behaviour
MaxUpdates == 3      \* progress updates that reach the store in one behaviour
MaxUuids == 4        \* uuid4() values drawn in one behaviour
MaxRecords == 3      \* longest Records list of an extraction event
MaxKeys == 1000      \* the keys one list_objects_v2 call returns at most

Procs == {1, 2}      \* concurrent invocations of one handler
Users == {"u1", "u2"}
Choices == {"A", "B"}

Min(a, b) == IF a <= b THEN a ELSE b

SeqsUpTo(S, n) == UNION {[1..k -> S] : k \in 0..n}

(***************************************************************************)
(* The request envelope.  An event is [isBase64Encoded, body]; a body is   *)
(* absent ([kind |-> "none"]) or a string ([kind |-> "str", enc, json]):   *)
(* enc says whether the string is the JSON text itself ("plain") or its    *)
(* base64 encoding ("base64"), json what the JSON text is: malformed, a    *)
(* value that is no object ("array"), or an object (a function from its    *)
(* keys to their values).                                                  *)
(***************************************************************************)
NoBody == [kind |-> "none"]
StrBody(enc, json) == [kind |-> "str", enc |-> enc, json |-> json]
Malformed == [kind |-> "malformed"]
ArrayJson == [kind |-> "array"]
ObjectJson(obj) == [kind |-> "object", obj |-> obj]
EmptyObject == [k \in {} |-> 0]
Event(b64, body) == [isBase64Encoded |-> b64, body |-> body]

\* The result of an expression: a value, or the exception it raises.
Value(v) == [exc |-> "none", val |-> v]
Raise(e) == [exc |-> e]

\* dict.get(key, default)
Get(obj, key, default) == IF key \in DOMAIN obj THEN obj[key] ELSE default

\* json.loads(text): a JSONDecodeError for malformed text, else the value.
JsonLoads(json) == IF json.kind = "malformed" THEN Raise("JSONDecodeError") ELSE Value(json)

\* base64.b64decode(body).decode(): the text of a base64 body.  A body that
\* is no base64 raises binascii.Error or UnicodeDecodeError (both ValueError);
\* the default "{}" decodes to the empty string.
B64Decode(body) ==
    IF body.kind = "none" THEN Value(StrBody("plain", Malformed))
    ELSE IF body.enc = "base64" THEN Value(StrBody("plain", body.json))
    ELSE Raise("ValueError")

\* body = event.get("body") or "{}"; decoded if isBase64Encoded; json.loads(body)
LoadBody(event) ==
    LET decoded == IF event.isBase64Encoded THEN B64Decode(event.body)
                   ELSE Value(event.body)
    IN  IF decoded.exc # "none" THEN decoded
        ELSE IF decoded.val.kind = "none" THEN Value(ObjectJson(EmptyObject))
        ELSE IF decoded.val.enc = "base64" THEN Raise("JSONDecodeError")
        ELSE JsonLoads(decoded.val.json)

\* payload[key]: KeyError for an object without the key, TypeError for a
\* JSON value that is no object.
Subscript(payload, key) ==
    IF payload.kind # "object" THEN Raise("TypeError")
    ELSE IF key \notin DOMAIN payload.obj THEN Raise("KeyError")
    ELSE Value(payload.obj[key])

\* The first exception among the lookups of the required keys, in order.
RECURSIVE FirstFailure(_, _)
FirstFailure(payload, keys) ==
    IF keys = <<>> THEN "none"
    ELSE IF Subscript(payload, Head(keys)).exc # "none" THEN Subscript(payload, Head(keys)).exc
    ELSE FirstFailure(payload, Tail(keys))

\* A handler's return value, {"statusCode": ..., "body": json.dumps(...)}.
Response(handler, status, body) ==
    [kind |-> "response", handler |-> handler, statusCode |-> status, body |-> body]
\* An exception no handler code catches: the invocation ends without a response.
Unhandled(handler, exc) == [kind |-> "raised", handler |-> handler, exc |-> exc]
ErrorBody(msg) == [error |-> msg]
\* {"error": f"Invalid input: {exc}"}, the exception standing for its text
InvalidInput(exc) == ErrorBody("Invalid input: " \o exc)
NoResponse == [kind |-> "none"]

(***************************************************************************)
(* submit_quiz/app.py                                                      *)
(***************************************************************************)
\* zip(answers, correct_answers): the pairs up to the shorter length.
RECURSIVE Zip(_, _)
Zip(a, c) ==
    IF a = <<>> \/ c = <<>> THEN <<>>
    ELSE <<<<Head(a), Head(c)>>>> \o Zip(Tail(a), Tail(c))

\* sum(1 for a, c in pairs if a == c)
RECURSIVE SumEqual(_)
SumEqual(pairs) ==
    IF pairs = <<>> THEN 0
    ELSE (IF Head(pairs)[1] = Head(pairs)[2] THEN 1 ELSE 0) + SumEqual(Tail(pairs))

RECURSIVE SumDifferent(_)
SumDifferent(pairs) ==
    IF pairs = <<>> THEN 0
    ELSE (IF Head(pairs)[1] # Head(pairs)[2] THEN 1 ELSE 0) + SumDifferent(Tail(pairs))

\* Mutant of Score: the comparison inverted.
ScoreInverted(answers, correct_answers) == SumDifferent(Zip(answers, correct_answers))

\* score = sum(1 for a, c in zip(answers, correct_answers) if a == c)
Score(answers, correct_answers) == SumEqual(Zip(answers, correct_answers))

\* The primary key of a result item: partition key userId, sort key timestamp.
ResultKey(item) == <<item.userId, item.timestamp>>

\* table.put_item(Item=item): creates the item, or replaces the item that
\* has the same primary key.
PutItem(table, item) == {it \in table : ResultKey(it) # ResultKey(item)} \cup {item}

NoItem == [kind |-> "none"]
SubIdle == [pc |-> "idle", event |-> Event(FALSE, NoBody), score |-> 0,
            item |-> NoItem, result |-> NoResponse]

\* Lines 34-45: the parse, with the exceptions the except clause catches
\* (KeyError, JSONDecodeError) and those it lets through.
SubmitParse(event) ==
    LET loaded == LoadBody(event)
    IN  IF loaded.exc # "none" THEN loaded
        ELSE IF FirstFailure(loaded.val, <<"userId", "answers", "correctAnswers">>) # "none"
             THEN Raise(FirstFailure(loaded.val, <<"userId", "answers", "correctAnswers">>))
        ELSE Value([user_id |-> loaded.val.obj["userId"],
                    quiz_id |-> Get(loaded.val.obj, "quizId", "unknown"),
                    answers |-> loaded.val.obj["answers"],
                    correct_answers |-> loaded.val.obj["correctAnswers"]])

\* Lines 32-61: parse, score, and build the item with the clock's reading.
SubmitBegin(p, event) ==
    /\ sub[p].pc = "idle"
    /\ submissions + Cardinality({q \in Procs : sub[q].pc = "put"}) < MaxSubmissions
    /\ LET parsed == SubmitParse(event)
           score == Score(parsed.val.answers, parsed.val.correct_answers)
       IN  sub' = [sub EXCEPT ![p] =
             IF parsed.exc \in {"KeyError", "JSONDecodeError"}
             THEN [SubIdle EXCEPT !.pc = "done", !.event = event,
                     !.result = Response("submit_quiz", 400, InvalidInput(parsed.exc))]
             ELSE IF parsed.exc # "none"
             THEN [SubIdle EXCEPT !.pc = "done", !.event = event,
                     !.result = Unhandled("submit_quiz", parsed.exc)]
             ELSE IF "QUIZ_RESULTS_TABLE" \in env
             THEN [SubIdle EXCEPT !.pc = "put", !.event = event, !.score = score,
                     !.item = [userId |-> parsed.val.user_id,
                               quizId |-> parsed.val.quiz_id,
                               timestamp |-> now,
                               score |-> score,
                               totalQuestions |-> Len(parsed.val.correct_answers)]]
             ELSE [SubIdle EXCEPT !.pc = "done", !.event = event, !.score = score,
                     !.result = Response("submit_quiz", 200, [score |-> score])]]
    /\ calls' = <<>>
    /\ UNCHANGED <<env, now, resultsTable, submissions, resp, NotQuiz>>

\* Lines 62-64: table.put_item(Item=item), then the response.
SubmitPut(p) ==
    /\ sub[p].pc = "put"
    /\ resultsTable' = PutItem(resultsTable, sub[p].item)
    /\ submissions' = submissions + 1
    /\ sub' = [sub EXCEPT ![p].pc = "done",
                          ![p].result = Response("submit_quiz", 200, [score |-> sub[p].score])]
    /\ calls' = <<"dynamodb.put_item">>
    /\ UNCHANGED <<env, now, resp, NotQuiz>>

\* The invocation is over; the next one starts with fresh locals.
SubmitEnd(p) ==
    /\ sub[p].pc = "done"
    /\ sub' = [sub EXCEPT ![p] = SubIdle]
    /\ UNCHANGED <<env, now, resultsTable, submissions, resp, calls, NotQuiz>>

\* time.time() moves on.
Tick ==
    /\ now < MaxTime
    /\ now' = now + 1
    /\ UNCHANGED <<env, resp, calls, quizVars, NotQuiz>>

(***************************************************************************)
(* get_performance/app.py                                                  *)
(*                                                                         *)
(* Numbers carry their Python type.  boto3's Table resource returns every  *)
(* DynamoDB number as a decimal.Decimal; int + Decimal and Decimal / int   *)
(* are Decimals, int / int is a float, and json.dumps has no encoding for  *)
(* a Decimal (TypeError).  A number is num / den.                          *)
(***************************************************************************)
PyInt(n) == [type |-> "int", num |-> n, den |-> 1]
Decimal(n) == [type |-> "Decimal", num |-> n, den |-> 1]

\* x + y
PyAdd(x, y) ==
    [type |-> IF "Decimal" \in {x.type, y.type} THEN "Decimal"
              ELSE IF "float" \in {x.type, y.type} THEN "float" ELSE "int",
     num |-> x.num * y.den + y.num * x.den,
     den |-> x.den * y.den]

\* x / n, n a non-zero int
PyTrueDiv(x, n) ==
    [type |-> IF x.type = "Decimal" THEN "Decimal" ELSE "float",
     num |-> x.num, den |-> x.den * n]

\* json.dumps(body) raises TypeError on a value of a type it cannot encode.
JsonSerializable(numbers) == \A x \in numbers : x.type # "Decimal"

\* table.query(KeyConditionExpression=Key("userId").eq(user_id)): the items
\* of the partition, as the resource layer deserializes them.
Query(table, user_id) ==
    {[it EXCEPT !.timestamp = Decimal(it.timestamp), !.score = Decimal(it.score),
                !.totalQuestions = Decimal(it.totalQuestions)] :
        it \in {x \in table : x.userId = user_id}}

\* sum(item.get("score", 0) for item in items), from the initial int 0
RECURSIVE SumScores(_)
SumScores(items) ==
    IF items = {} THEN PyInt(0)
    ELSE LET it == CHOOSE x \in items : TRUE
         IN  PyAdd(SumScores(items \ {it}), Get(it, "score", PyInt(0)))

\* What one step of a handler comes to: its response (or the exception that
\* ended it) and the calls to external services it made on the way.
Outcome(result, made) == [resp |-> result, calls |-> made]

\* Lines 29-60: the handler reads the store once and writes nothing.
Performance(event) ==
    LET loaded == LoadBody(event)
        failure == IF loaded.exc # "none" THEN loaded.exc
                   ELSE Subscript(loaded.val, "userId").exc
        user_id == loaded.val.obj["userId"]
        items == Query(resultsTable, user_id)
        total_quizzes == Cardinality(items)
        total_score == SumScores(items)
        avg_score == IF total_quizzes # 0 THEN PyTrueDiv(total_score, total_quizzes)
                     ELSE PyInt(0)
    IN  IF failure \in {"KeyError", "JSONDecodeError"}
        THEN Outcome(Response("get_performance", 400, InvalidInput(failure)), <<>>)
        ELSE IF failure # "none"
        THEN Outcome(Unhandled("get_performance", failure), <<>>)
        ELSE IF "QUIZ_RESULTS_TABLE" \notin env
        THEN Outcome(Response("get_performance", 500,
                              ErrorBody("QUIZ_RESULTS_TABLE not configured")), <<>>)
        ELSE IF ~JsonSerializable({PyInt(total_quizzes), total_score, avg_score})
        THEN Outcome(Unhandled("get_performance", "TypeError"), <<"dynamodb.query">>)
        ELSE Outcome(Response("get_performance", 200,
                              [userId |-> user_id, totalQuizzes |-> PyInt(total_quizzes),
                               totalScore |-> total_score, averageScore |-> avg_score]),
                     <<"dynamodb.query">>)

GetPerformance(event) ==
    /\ resp' = Performance(event).resp
    /\ calls' = Performance(event).calls
    /\ UNCHANGED <<env, now, quizVars, NotQuiz>>

(***************************************************************************)
(* save_xp_badge_progress/app.py                                           *)
(***************************************************************************)
PyStr(n) == [type |-> "str", num |-> n, den |-> 1]       \* the string spelling the integer n
PyWord == [type |-> "str", num |-> 0, den |-> 0]         \* a string that spells no number
PyNone == [type |-> "NoneType", num |-> 0, den |-> 1]    \* JSON null
PyFloat(n, d) == [type |-> "float", num |-> n, den |-> d]

\* int(x): the integer itself, a float truncated towards zero, the integer a
\* string spells (ValueError if it spells none), TypeError for None.
IntOf(x) ==
    IF x.type = "NoneType" THEN Raise("TypeError")
    ELSE IF x.den = 0 THEN Raise("ValueError")
    ELSE IF x.num >= 0 THEN Value(x.num \div x.den)
    ELSE Value(-((-x.num) \div x.den))

ProgressKey(item) == item.userId

\* if_not_exists(attr, :zero): the attribute of the stored item, or 0.
IfNotExists(table, user_id, attr) ==
    IF \E it \in table : ProgressKey(it) = user_id
    THEN Get(CHOOSE it \in table : ProgressKey(it) = user_id, attr, 0)
    ELSE 0

\* The item update_item leaves for the key: the SET clauses applied to the
\* stored item (created if absent), in one atomic step of the store.
UpdatedItem(table, user_id, xp, t) ==
    [userId |-> user_id,
     xp |-> IfNotExists(table, user_id, "xp") + xp,
     lastActivity |-> t,
     streak |-> IfNotExists(table, user_id, "streak") + 1]

\* Mutant of UpdateItem: SET xp = :xp, the stored amount overwritten.
UpdateItemOverwrite(table, user_id, xp, t) ==
    {it \in table : ProgressKey(it) # user_id}
        \cup {[UpdatedItem(table, user_id, xp, t) EXCEPT !.xp = xp]}

\* table.update_item(Key={"userId": user_id}, UpdateExpression="SET ...")
UpdateItem(table, user_id, xp, t) ==
    {it \in table : ProgressKey(it) # user_id} \cup {UpdatedItem(table, user_id, xp, t)}

ProgIdle == [pc |-> "idle", user_id |-> "", xp |-> 0, now |-> 0, result |-> NoResponse]

\* The update_item calls made so far.
UpdatesMade == updates["u1"].n + updates["u2"].n

\* Lines 32-41: the parse; the except clause catches KeyError, JSONDecodeError
\* and ValueError.
ProgressParse(event) ==
    LET loaded == LoadBody(event)
    IN  IF loaded.exc # "none" THEN loaded
        ELSE IF Subscript(loaded.val, "userId").exc # "none"
             THEN Subscript(loaded.val, "userId")
        ELSE IF IntOf(Get(loaded.val.obj, "xp", PyInt(0))).exc # "none"
             THEN IntOf(Get(loaded.val.obj, "xp", PyInt(0)))
        ELSE Value([user_id |-> loaded.val.obj["userId"],
                    xp |-> IntOf(Get(loaded.val.obj, "xp", PyInt(0))).val])

\* Lines 31-49: parse, configuration, and the clock's reading.
ProgressBegin(p, event) ==
    /\ prog[p].pc = "idle"
    /\ UpdatesMade + Cardinality({q \in Procs : prog[q].pc = "update"}) < MaxUpdates
    /\ LET parsed == ProgressParse(event)
       IN  prog' = [prog EXCEPT ![p] =
             IF parsed.exc \in {"KeyError", "JSONDecodeError", "ValueError"}
             THEN [ProgIdle EXCEPT !.pc = "done",
                     !.result = Response("save_xp_badge_progress", 400, InvalidInput(parsed.exc))]
             ELSE IF parsed.exc # "none"
             THEN [ProgIdle EXCEPT !.pc = "done",
                     !.result = Unhandled("save_xp_badge_progress", parsed.exc)]
             ELSE IF "PROGRESS_TABLE" \notin env
             THEN [ProgIdle EXCEPT !.pc = "done",
                     !.result = Response("save_xp_badge_progress", 500,
                                         ErrorBody("PROGRESS_TABLE not configured"))]
             ELSE [ProgIdle EXCEPT !.pc = "update",
                     !.user_id = parsed.val.user_id, !.xp = parsed.val.xp, !.now = now]]
    /\ calls' = <<>>
    /\ UNCHANGED <<env, now, resp, progressTable, updates, NotProgress>>

\* Lines 53-67: the update, and json.dumps of the attributes it returns
\* (ReturnValues="ALL_NEW"), which the resource layer gives as Decimals.
ProgressUpdate(p) ==
    /\ prog[p].pc = "update"
    /\ progressTable' = UpdateItem(progressTable, prog[p].user_id, prog[p].xp, prog[p].now)
    /\ updates' = [updates EXCEPT ![prog[p].user_id] =
                                    [n |-> @.n + 1, sum |-> @.sum + prog[p].xp]]
    /\ LET new_item == CHOOSE it \in progressTable' : ProgressKey(it) = prog[p].user_id
           attributes == {Decimal(new_item.xp), Decimal(new_item.lastActivity),
                          Decimal(new_item.streak)}
       IN  prog' = [prog EXCEPT ![p].pc = "done",
                                ![p].result =
                                   IF JsonSerializable(attributes)
                                   THEN Response("save_xp_badge_progress", 200,
                                                 [progress |-> new_item])
                                   ELSE Unhandled("save_xp_badge_progress", "TypeError")]
    /\ calls' = <<"dynamodb.update_item">>
    /\ UNCHANGED <<env, now, resp, NotProgress>>

ProgressEnd(p) ==
    /\ prog[p].pc = "done"
    /\ prog' = [prog EXCEPT ![p] = ProgIdle]
    /\ UNCHANGED <<env, now, resp, calls, progressTable, updates, NotProgress>>

(***************************************************************************)
(* upload_handler/app.py                                                   *)
(***************************************************************************)
\* The value of a setting that is set.
EnvValue(name) == "examfleet-" \o name

\* A fileContent string: valid base64 or not.
FileContent(valid) == [type |-> "str", valid |-> valid]

\* s3_client.put_object(Bucket=bucket, Key=key, ...) on a bucket given by its keys
PutObject(keys, key) == keys \cup {key}

\* Mutant of Upload: the body parsed before the setting is looked at, as the
\* performance and progress handlers do.
UploadParseFirst(event) ==
    LET decoded == IF ~event.isBase64Encoded THEN Value(event.body)
                   ELSE IF event.body.kind = "none" THEN Raise("TypeError")
                   ELSE B64Decode(event.body)
        loaded == IF decoded.exc # "none" THEN decoded
                  ELSE LoadBody(Event(FALSE, decoded.val))
        failure == IF loaded.exc # "none" THEN loaded.exc
                   ELSE FirstFailure(loaded.val, <<"fileName", "fileContent">>)
        file_name == loaded.val.obj["fileName"]
        file_content_b64 == loaded.val.obj["fileContent"]
    IN  IF failure \in {"KeyError", "JSONDecodeError"}
        THEN Outcome(Response("upload_handler", 400, InvalidInput(failure)), <<>>)
        ELSE IF failure # "none"
        THEN Outcome(Unhandled("upload_handler", failure), <<>>)
        ELSE IF "UPLOADS_BUCKET_NAME" \notin env
        THEN Outcome(Response("upload_handler", 500,
                              ErrorBody("UPLOADS_BUCKET_NAME not configured")), <<>>)
        ELSE IF ~file_content_b64.valid
        THEN Outcome(Response("upload_handler", 400,
                              ErrorBody("Unable to decode fileContent")), <<>>)
        ELSE Outcome(Response("upload_handler", 200,
                              [fileUrl |-> "https://" \o EnvValue("UPLOADS_BUCKET_NAME")
                                           \o ".s3.amazonaws.com/" \o file_name]),
                     <<"s3.put_object">>)

\* Lines 27-60.  The body is read without a default, so a base64 flag on an
\* absent body is b64decode(None), a TypeError.
Upload(event) ==
    LET decoded == IF ~event.isBase64Encoded THEN Value(event.body)
                   ELSE IF event.body.kind = "none" THEN Raise("TypeError")
                   ELSE B64Decode(event.body)
        loaded == IF decoded.exc # "none" THEN decoded
                  ELSE LoadBody(Event(FALSE, decoded.val))
        failure == IF loaded.exc # "none" THEN loaded.exc
                   ELSE FirstFailure(loaded.val, <<"fileName", "fileContent">>)
        file_name == loaded.val.obj["fileName"]
        file_content_b64 == loaded.val.obj["fileContent"]
    IN  IF "UPLOADS_BUCKET_NAME" \notin env
        THEN Outcome(Response("upload_handler", 500,
                              ErrorBody("UPLOADS_BUCKET_NAME not configured")), <<>>)
        ELSE IF failure \in {"KeyError", "JSONDecodeError"}
        THEN Outcome(Response("upload_handler", 400, InvalidInput(failure)), <<>>)
        ELSE IF failure # "none"
        THEN Outcome(Unhandled("upload_handler", failure), <<>>)
        ELSE IF ~file_content_b64.valid
        THEN Outcome(Response("upload_handler", 400,
                              ErrorBody("Unable to decode fileContent")), <<>>)
        ELSE Outcome(Response("upload_handler", 200,
                              [fileUrl |-> "https://" \o EnvValue("UPLOADS_BUCKET_NAME")
                                           \o ".s3.amazonaws.com/" \o file_name]),
                     <<"s3.put_object">>)

UploadFile(event) ==
    /\ resp' = Upload(event).resp
    /\ calls' = Upload(event).calls
    /\ uploads' = IF Upload(event).calls = <<>> THEN uploads
                  ELSE PutObject(uploads, event.body.json.obj["fileName"])
    /\ UNCHANGED <<env, now, NotUpload>>

(***************************************************************************)
(* flashcard_generator/app.py and generate_quiz/app.py                     *)
(*                                                                         *)
(* A reply of the language model is an exception raised by the call, a     *)
(* content that is no JSON, or a JSON content: a list of elements (objects *)
(* or other values), an object, a non-empty string, or a number.           *)
(***************************************************************************)
LlmError == [kind |-> "error"]
LlmText == [kind |-> "text"]
LlmJson(val) == [kind |-> "json", val |-> val]
JsonList(items) == [kind |-> "list", items |-> items]
JsonNumber == [kind |-> "number"]
JsonString == [kind |-> "string"]

\* A summary value: a string, or a JSON value that is no string.
SummaryText(text) == [type |-> "str", text |-> text]
SummaryNumber == [type |-> "int", text |-> ""]

\* _dummy_flashcards(summary)
DummyFlashcards ==
    JsonList(<<ObjectJson(
        [question |-> "What is the purpose of flashcards?",
         answer |-> "Flashcards are used as a study aid to improve memory through spaced repetition."])>>)

\* _dummy_quiz(summary)
DummyQuiz ==
    JsonList(<<ObjectJson(
        [question |-> "This is a placeholder question because the quiz generator is not configured.",
         options |-> <<"Option A", "Option B", "Option C", "Option D">>,
         answer |-> "Option A"])>>)

\* The try block around the call: json.loads(content), or the fallback on
\* any exception.
ReplyOr(reply, fallback) == IF reply.kind = "json" THEN reply.val ELSE fallback

\* card.get(k1) or card.get(k2) or "": the first value that is truthy.
FirstTruthy(card, keys) ==
    IF keys[1] \in DOMAIN card /\ card[keys[1]] # "" THEN card[keys[1]]
    ELSE IF keys[2] \in DOMAIN card /\ card[keys[2]] # "" THEN card[keys[2]]
    ELSE ""

\* str(uuid.uuid4()): the n-th value drawn, different from all others.
Uuid(n) == "uuid-" \o ToString(n)

\* Lines 73-83: the loop over the cards.  Iterating a number raises
\* TypeError; an element that is no object (and so each key of an object
\* iterated in place of a list) has no get: AttributeError.
Normalize(cards, topic_id, drawn) ==
    IF cards.kind = "number" THEN Raise("TypeError")
    ELSE IF cards.kind = "string" THEN Raise("AttributeError")
    ELSE IF cards.kind = "object"
         THEN (IF DOMAIN cards.obj = {} THEN Value(<<>>) ELSE Raise("AttributeError"))
    ELSE IF \E i \in 1..Len(cards.items) : cards.items[i].kind # "object"
         THEN Raise("AttributeError")
    ELSE Value([i \in 1..Len(cards.items) |->
                  [id |-> Uuid(drawn + i),
                   front |-> FirstTruthy(cards.items[i].obj, <<"front", "question">>),
                   back |-> FirstTruthy(cards.items[i].obj, <<"back", "answer">>),
                   topicId |-> topic_id]])

\* The uuid4() calls the loop makes before it ends or raises.
Drawn(cards) ==
    IF cards.kind # "list" THEN 0
    ELSE IF \E i \in 1..Len(cards.items) : cards.items[i].kind # "object"
         THEN (CHOOSE i \in 1..Len(cards.items) :
                  /\ cards.items[i].kind # "object"
                  /\ \A j \in 1..(i - 1) : cards.items[j].kind = "object") - 1
    ELSE Len(cards.items)

\* The outcome of a step that also drew uuids.
Drawing(out, drawn) == [resp |-> out.resp, calls |-> out.calls, drawn |-> drawn]

\* Lines 27-88 of flashcard_generator.  The base64 decoding is outside the
\* try; the prompt is built by string concatenation outside it too.
Flashcards(event, reply) ==
    LET loaded == LoadBody(event)
        failure == IF loaded.exc # "none" THEN loaded.exc
                   ELSE Subscript(loaded.val, "summary").exc
        summary == loaded.val.obj["summary"]
        topic_id == Get(loaded.val.obj, "topicId", "general")
        configured == openai /\ "OPENAI_API_KEY" \in env
        cards == IF configured THEN ReplyOr(reply, DummyFlashcards) ELSE DummyFlashcards
        flashcards == Normalize(cards, topic_id, uuids)
        made == IF configured THEN <<"openai.ChatCompletion.create">> ELSE <<>>
    IN  IF failure \in {"KeyError", "JSONDecodeError"}
        THEN Drawing(Outcome(Response("flashcard_generator", 400, InvalidInput(failure)),
                             <<>>), 0)
        ELSE IF failure # "none"
        THEN Drawing(Outcome(Unhandled("flashcard_generator", failure), <<>>), 0)
        ELSE IF configured /\ summary.type # "str"
        THEN Drawing(Outcome(Unhandled("flashcard_generator", "TypeError"), <<>>), 0)
        ELSE IF flashcards.exc # "none"
        THEN Drawing(Outcome(Unhandled("flashcard_generator", flashcards.exc), made),
                     Drawn(cards))
        ELSE Drawing(Outcome(Response("flashcard_generator", 200,
                                      [flashcards |-> flashcards.val]), made),
                     Drawn(cards))

GenerateFlashcards(event, reply) ==
    /\ uuids + Flashcards(event, reply).drawn <= MaxUuids
    /\ resp' = Flashcards(event, reply).resp
    /\ calls' = Flashcards(event, reply).calls
    /\ uuids' = uuids + Flashcards(event, reply).drawn
    /\ UNCHANGED <<env, now, NotLlm>>

\* Lines 35-87 of generate_quiz: whatever JSON the model returns is passed on.
Quiz(event, reply) ==
    LET loaded == LoadBody(event)
        failure == IF loaded.exc # "none" THEN loaded.exc
                   ELSE Subscript(loaded.val, "summary").exc
        summary == loaded.val.obj["summary"]
        configured == openai /\ "OPENAI_API_KEY" \in env
        quiz == IF configured THEN ReplyOr(reply, DummyQuiz) ELSE DummyQuiz
        made == IF configured THEN <<"openai.ChatCompletion.create">> ELSE <<>>
    IN  IF failure \in {"KeyError", "JSONDecodeError"}
        THEN Outcome(Response("generate_quiz", 400, InvalidInput(failure)), <<>>)
        ELSE IF failure # "none"
        THEN Outcome(Unhandled("generate_quiz", failure), <<>>)
        ELSE IF configured /\ summary.type # "str"
        THEN Outcome(Unhandled("generate_quiz", "TypeError"), <<>>)
        ELSE Outcome(Response("generate_quiz", 200, [questions |-> quiz]), made)

GenerateQuiz(event, reply) ==
    /\ resp' = Quiz(event, reply).resp
    /\ calls' = Quiz(event, reply).calls
    /\ UNCHANGED <<env, now, uuids, NotLlm>>

(***************************************************************************)
(* papers_handler/app.py                                                   *)
(***************************************************************************)
\* The names of exam_urls, in the order the dict is written and iterated.
ExamNames ==
    <<"UPSC_Civil_Services_Prelims_2024_GS_Paper_I",
      "UPSC_Civil_Services_Prelims_2024_GS_Paper_II",
      "SSC_Model_Question_Paper_English">>

\* key = f"{name}.pdf"
PdfKey(name) == name \o ".pdf"

\* The place of a key in S3's listing order (UTF-8 binary order) among the
\* keys of the model: the three papers, then every key under "archive/".
KeyRank(key) ==
    IF key = PdfKey(ExamNames[3]) THEN 1
    ELSE IF key = PdfKey(ExamNames[1]) THEN 2
    ELSE IF key = PdfKey(ExamNames[2]) THEN 3
    ELSE 4

\* Objects the bucket holds from elsewhere: n keys under "archive/".
Archive(n) == [i \in 1..n |-> "archive/" \o ToString(10000 + i) \o ".pdf"]

\* s3_client.put_object(Bucket=bucket, Key=key, ...): the object is created,
\* or replaces the object of that key.
S3PutObject(keys, key) ==
    IF \E i \in 1..Len(keys) : keys[i] = key THEN keys
    ELSE LET before == Cardinality({i \in 1..Len(keys) : KeyRank(keys[i]) < KeyRank(key)})
         IN  SubSeq(keys, 1, before) \o <<key>> \o SubSeq(keys, before + 1, Len(keys))

\* s3_client.list_objects_v2(Bucket=bucket)["Contents"]: the first MaxKeys
\* keys; the rest is left to further calls with the ContinuationToken.
ListObjectsV2(keys) == SubSeq(keys, 1, Min(Len(keys), MaxKeys))

DlIdle == [pc |-> "idle", i |-> 1, saved_keys |-> <<>>, outcomes |-> <<>>,
           result |-> NoResponse]

\* action = (event or {}).get("action")
ActionOf(event) == Get(event, "action", "None")

\* What fetching and storing one document comes to: stored, or the exception
\* of requests.get, of raise_for_status or of put_object.
FetchOutcomes == {"ok", "ConnectionError", "HTTPError", "ClientError"}

\* Lines 54-75 and 118-120: the dispatch to _handle_download_papers, up to the loop.
StartDownload(event) ==
    /\ ActionOf(event) = "download_papers"
    /\ dl.pc = "idle"
    /\ dl' = IF "BUCKET_NAME" \in env THEN [DlIdle EXCEPT !.pc = "loop"]
             ELSE [DlIdle EXCEPT !.pc = "done",
                     !.result = Response("papers_handler", 500,
                                  ErrorBody("BUCKET_NAME environment variable not set"))]
    /\ calls' = <<>>
    /\ UNCHANGED <<env, now, resp, bucket, NotPapers>>

\* The entry of saved_keys for one document.
SavedEntry(key, outcome) == IF outcome = "ok" THEN key ELSE key \o ": error " \o outcome

\* Mutant of DownloadStep: no try around _download_and_store, the exception
\* of one document ends the invocation.
DownloadStepUncaught(outcome) ==
    /\ dl.pc = "loop"
    /\ bucket' = IF outcome = "ok" THEN S3PutObject(bucket, PdfKey(ExamNames[dl.i])) ELSE bucket
    /\ dl' = IF outcome # "ok"
             THEN [dl EXCEPT !.pc = "done", !.outcomes = Append(@, outcome),
                             !.result = Unhandled("papers_handler", outcome)]
             ELSE IF dl.i = Len(ExamNames)
             THEN [dl EXCEPT !.pc = "done", !.outcomes = Append(@, outcome),
                             !.saved_keys = Append(@, PdfKey(ExamNames[dl.i])),
                             !.result = Response("papers_handler", 200,
                                           [saved |-> Append(dl.saved_keys, PdfKey(ExamNames[dl.i]))])]
             ELSE [dl EXCEPT !.i = @ + 1, !.outcomes = Append(@, outcome),
                             !.saved_keys = Append(@, PdfKey(ExamNames[dl.i]))]
    /\ calls' = <<"requests.get">>
    /\ UNCHANGED <<env, now, resp, NotPapers>>

\* Lines 76-88, one pass of the loop: _download_and_store for the document,
\* its key or its error appended; after the last document, the response.
DownloadStep(outcome) ==
    /\ dl.pc = "loop"
    /\ bucket' = IF outcome = "ok" THEN S3PutObject(bucket, PdfKey(ExamNames[dl.i])) ELSE bucket
    /\ LET saved_keys == Append(dl.saved_keys, SavedEntry(PdfKey(ExamNames[dl.i]), outcome))
       IN  dl' = IF dl.i = Len(ExamNames)
                 THEN [dl EXCEPT !.pc = "done", !.outcomes = Append(@, outcome),
                                 !.saved_keys = saved_keys,
                                 !.result = Response("papers_handler", 200,
                                                     [saved |-> saved_keys])]
                 ELSE [dl EXCEPT !.i = @ + 1, !.outcomes = Append(@, outcome),
                                 !.saved_keys = saved_keys]
    /\ calls' = IF outcome = "ConnectionError" \/ outcome = "HTTPError" THEN <<"requests.get">>
                ELSE <<"requests.get", "s3.put_object">>
    /\ UNCHANGED <<env, now, resp, NotPapers>>

DownloadEnd ==
    /\ dl.pc = "done"
    /\ dl' = DlIdle
    /\ UNCHANGED <<env, now, resp, calls, bucket, NotPapers>>

\* Lines 91-108 and 121-122: _handle_list_papers.
ListPapers(event) ==
    /\ ActionOf(event) = "list_papers"
    /\ resp' = IF "BUCKET_NAME" \in env
               THEN Response("papers_handler", 200, [files |-> ListObjectsV2(bucket)])
               ELSE Response("papers_handler", 500,
                             ErrorBody("BUCKET_NAME environment variable not set"))
    /\ calls' = IF "BUCKET_NAME" \in env THEN <<"s3.list_objects_v2">> ELSE <<>>
    /\ UNCHANGED <<env, now, papersVars, NotPapers>>

\* Lines 123-127: any other action, or none.
UnsupportedAction(event) ==
    /\ ActionOf(event) \notin {"download_papers", "list_papers"}
    /\ resp' = Response("papers_handler", 400,
                        ErrorBody("Unsupported action: " \o ActionOf(event)))
    /\ calls' = <<>>
    /\ UNCHANGED <<env, now, papersVars, NotPapers>>

(***************************************************************************)
(* jwt_verify/app.py                                                       *)
(*                                                                         *)
(* A string is the sequence of its words and of the runs of whitespace     *)
(* between them (" "); the empty string is <<>>.                           *)
(***************************************************************************)
HeaderText(chars) == [type |-> "str", chars |-> chars]

\* bool(x) of a string or None
Truthy(x) == x.type = "str" /\ x.chars # <<>>

\* str.split(): the words, whitespace dropped
Split(chars) == SelectSeq(chars, LAMBDA w : w # " ")

\* str.lower() on the scheme words of the model
Lower(w) ==
    IF w \in {"Bearer", "BEARER", "bearer"} THEN "bearer"
    ELSE IF w \in {"Basic", "basic"} THEN "basic"
    ELSE w

\* headers.get("authorization") or headers.get("Authorization")
AuthHeader(headers) ==
    IF Truthy(Get(headers, "authorization", PyNone)) THEN headers["authorization"]
    ELSE Get(headers, "Authorization", PyNone)

\* What auth.verify_id_token(token) can come to: the decoded claims
\* ("accepted") for a token the provider issued, if its certificates can be
\* fetched; an exception otherwise.
Verdicts(token) ==
    IF token = "issued" THEN {"accepted", "CertificateFetchError"}
    ELSE IF token = "expired" THEN {"ExpiredIdTokenError"}
    ELSE {"InvalidIdTokenError"}

\* The claims the provider decodes from a token.
Decoded(token) == [uid |-> "uid-of-" \o token]

\* Whether lines 47-49 let the event through to the verification.
ReachesVerify(event) ==
    /\ Truthy(AuthHeader(Get(event, "headers", EmptyObject)))
    /\ Len(Split(AuthHeader(Get(event, "headers", EmptyObject)).chars)) = 2
    /\ Lower(Split(AuthHeader(Get(event, "headers", EmptyObject)).chars)[1]) = "bearer"

\* Mutant of JwtRespond: the scheme compared without lower().
JwtRespondCaseSensitive(event, verdict) ==
    LET auth_header == AuthHeader(Get(event, "headers", EmptyObject))
        parts == Split(auth_header.chars)
    IN  IF ~Truthy(auth_header)
        THEN Outcome(Response("jwt_verify", 401, ErrorBody("Missing Authorization header")), <<>>)
        ELSE IF Len(parts) # 2 \/ parts[1] # "bearer"
        THEN Outcome(Response("jwt_verify", 401, ErrorBody("Invalid authorization format")), <<>>)
        ELSE IF verdict = "accepted"
        THEN Outcome(Response("jwt_verify", 200, [claims |-> Decoded(parts[2])]),
                     <<"auth.verify_id_token">>)
        ELSE Outcome(Response("jwt_verify", 401,
                              ErrorBody("Token verification failed: " \o verdict)),
                     <<"auth.verify_id_token">>)

\* Lines 42-55: the response to an event, given the provider's verdict on
\* the token if the handler asks for it.
JwtRespond(event, verdict) ==
    LET auth_header == AuthHeader(Get(event, "headers", EmptyObject))
        parts == Split(auth_header.chars)
    IN  IF ~Truthy(auth_header)
        THEN Outcome(Response("jwt_verify", 401, ErrorBody("Missing Authorization header")), <<>>)
        ELSE IF Len(parts) # 2 \/ Lower(parts[1]) # "bearer"
        THEN Outcome(Response("jwt_verify", 401, ErrorBody("Invalid authorization format")), <<>>)
        ELSE IF verdict = "accepted"
        THEN Outcome(Response("jwt_verify", 200, [claims |-> Decoded(parts[2])]),
                     <<"auth.verify_id_token">>)
        ELSE Outcome(Response("jwt_verify", 401,
                              ErrorBody("Token verification failed: " \o verdict)),
                     <<"auth.verify_id_token">>)

JwtIdle == [pc |-> "idle", event |-> EmptyObject, verdict |-> "none", result |-> NoResponse]

\* Lines 41 and 25-28: the invocation enters _init_firebase and reads _initialized.
JwtCheck(p, event) ==
    /\ jwt[p].pc = "idle"
    /\ jwt' = [jwt EXCEPT ![p] = [JwtIdle EXCEPT !.event = event,
                                     !.pc = IF initialized THEN "handle" ELSE "init"]]
    /\ calls' = <<>>
    /\ UNCHANGED <<env, now, resp, initialized, apps, NotJwt>>

\* Lines 29-36: the credentials, and firebase_admin.initialize_app, which
\* raises ValueError if the default app exists already.
JwtInitializeApp(p) ==
    /\ jwt[p].pc = "init"
    /\ apps' = apps \cup {"[DEFAULT]"}
    /\ jwt' = [jwt EXCEPT ![p] =
                 IF "[DEFAULT]" \in apps
                 THEN [@ EXCEPT !.pc = "done", !.result = Unhandled("jwt_verify", "ValueError")]
                 ELSE [@ EXCEPT !.pc = "set"]]
    /\ calls' = <<"firebase_admin.initialize_app">>
    /\ UNCHANGED <<env, now, resp, initialized, NotJwt>>

\* Line 37: _initialized = True
JwtSetInitialized(p) ==
    /\ jwt[p].pc = "set"
    /\ initialized' = TRUE
    /\ jwt' = [jwt EXCEPT ![p].pc = "handle"]
    /\ calls' = <<>>
    /\ UNCHANGED <<env, now, resp, apps, NotJwt>>

\* Lines 42-55: the header checks and the verification.
JwtHandle(p, verdict) ==
    /\ jwt[p].pc = "handle"
    /\ IF ReachesVerify(jwt[p].event)
       THEN verdict \in Verdicts(Split(AuthHeader(jwt[p].event.headers).chars)[2])
       ELSE verdict = "none"
    /\ jwt' = [jwt EXCEPT ![p].pc = "done", ![p].verdict = verdict,
                          ![p].result = JwtRespond(jwt[p].event, verdict).resp]
    /\ calls' = JwtRespond(jwt[p].event, verdict).calls
    /\ UNCHANGED <<env, now, resp, initialized, apps, NotJwt>>

JwtEnd(p) ==
    /\ jwt[p].pc = "done"
    /\ jwt' = [jwt EXCEPT ![p] = JwtIdle]
    /\ UNCHANGED <<env, now, resp, calls, initialized, apps, NotJwt>>

(***************************************************************************)
(* summarize_content/app.py                                                *)
(*                                                                         *)
(* A text is the sequence of its characters, " " the whitespace.           *)
(***************************************************************************)
MaxSummary == 1000   \* the characters _fallback_summary keeps

StrValue(chars) == [type |-> "str", chars |-> chars]

\* A text of n characters, no two neighbours alike.
TextOf(n) == [i \in 1..n |-> ToString(i % 10)]

\* A fileContent string that decodes to a PDF with these pages: the text
\* extract_text() gives for each, or PyNone where it gives None.
PdfFile(pages) == [type |-> "str", chars |-> <<"JVBERi0=">>, valid |-> TRUE, pages |-> pages]
\* A fileContent string that is no base64 of a PDF.
NoPdf == [type |-> "str", chars |-> <<"!">>, valid |-> FALSE, pages |-> <<>>]

\* "\n".join(page.extract_text() or "" for page in reader.pages)
RECURSIVE JoinPages(_)
JoinPages(pages) ==
    IF pages = <<>> THEN <<>>
    ELSE LET first == IF Head(pages).type = "str" THEN Head(pages).chars ELSE <<>>
         IN  IF Len(pages) = 1 THEN first
             ELSE first \o <<"\n">> \o JoinPages(Tail(pages))

\* str.strip()
RECURSIVE Strip(_)
Strip(chars) ==
    IF chars = <<>> THEN <<>>
    ELSE IF Head(chars) = " " THEN Strip(Tail(chars))
    ELSE IF chars[Len(chars)] = " " THEN Strip(SubSeq(chars, 1, Len(chars) - 1))
    ELSE chars

\* Mutant of FallbackSummary: the marker added from MaxSummary characters on.
FallbackSummaryAtLimit(text) ==
    SubSeq(text, 1, Min(Len(text), MaxSummary))
        \o (IF Len(text) >= MaxSummary THEN <<".", ".", ".">> ELSE <<>>)

\* _fallback_summary(text): text[:1000] + ("..." if len(text) > 1000 else "")
FallbackSummary(text) ==
    SubSeq(text, 1, Min(Len(text), MaxSummary))
        \o (IF Len(text) > MaxSummary THEN <<".", ".", ".">> ELSE <<>>)

\* The reply of the chat call as line 92 reads it: an exception of the call,
\* a response without the content (KeyError, or None and AttributeError on
\* strip), or a content string.
ChatError == [kind |-> "error"]
ChatNoContent == [kind |-> "nocontent"]
ChatContent(chars) == [kind |-> "content", chars |-> chars]

\* isinstance(payload.get(key), str) and payload[key]
NonEmptyStr(obj, key) ==
    /\ key \in DOMAIN obj
    /\ obj[key].type = "str"
    /\ obj[key].chars # <<>>

SmIdle == [pc |-> "idle", event |-> Event(FALSE, NoBody), text |-> <<>>,
           reply |-> ChatError, result |-> NoResponse]

\* Lines 44-96 up to the chat call: the body, the choice of the source text,
\* and the summary if no call is to be made.
SummarizeBegin(event) ==
    /\ sm.pc = "idle"
    /\ LET loaded == LoadBody(event)
           obj == loaded.val.obj
           text == IF NonEmptyStr(obj, "text") THEN obj["text"].chars
                   ELSE JoinPages(obj["fileContent"].pages)
           done(result) == [SmIdle EXCEPT !.pc = "done", !.event = event, !.result = result]
       IN  sm' = IF loaded.exc = "JSONDecodeError"
                 THEN done(Response("summarize_content", 400,
                                    ErrorBody("Invalid JSON: JSONDecodeError")))
                 ELSE IF loaded.exc # "none"
                 THEN done(Unhandled("summarize_content", loaded.exc))
                 ELSE IF loaded.val.kind # "object"
                 THEN done(Unhandled("summarize_content", "AttributeError"))
                 ELSE IF ~NonEmptyStr(obj, "text") /\ ~NonEmptyStr(obj, "fileContent")
                 THEN done(Response("summarize_content", 400,
                                    ErrorBody("Missing 'text' or 'fileContent' in request")))
                 ELSE IF ~NonEmptyStr(obj, "text") /\ ~obj["fileContent"].valid
                 THEN done(Response("summarize_content", 400,
                                    ErrorBody("Failed to decode PDF")))
                 ELSE IF text = <<>>
                 THEN done(Response("summarize_content", 400,
                                    ErrorBody("No content provided to summarise")))
                 ELSE IF openai /\ "OPENAI_API_KEY" \in env
                 THEN [SmIdle EXCEPT !.pc = "call", !.event = event, !.text = text]
                 ELSE [done(Response("summarize_content", 200,
                                     [summary |-> FallbackSummary(text)]))
                         EXCEPT !.text = text]
    /\ calls' = <<>>
    /\ UNCHANGED <<env, now, resp, NotSummary>>

\* Lines 82-101: the chat call and the response.
SummarizeCall(reply) ==
    /\ sm.pc = "call"
    /\ sm' = [sm EXCEPT !.pc = "done", !.reply = reply,
                        !.result = Response("summarize_content", 200,
                            [summary |-> IF reply.kind = "content" THEN Strip(reply.chars)
                                         ELSE FallbackSummary(sm.text)])]
    /\ calls' = <<"openai.ChatCompletion.create">>
    /\ UNCHANGED <<env, now, resp, NotSummary>>

SummarizeEnd ==
    /\ sm.pc = "done"
    /\ sm' = SmIdle
    /\ UNCHANGED <<env, now, resp, calls, NotSummary>>

(***************************************************************************)
(* extract_text/app.py                                                     *)
(*                                                                         *)
(* An object key is the sequence of its pieces: "/", "." and the words     *)
(* between them.  None is PyNone.                                          *)
(***************************************************************************)
KeyText(pieces) == [type |-> "str", chars |-> pieces]

\* The last position of a piece in a key, 0 if it has none.
LastIndex(pieces, piece) ==
    IF \E i \in 1..Len(pieces) : pieces[i] = piece
    THEN CHOOSE i \in 1..Len(pieces) :
            pieces[i] = piece /\ \A j \in (i + 1)..Len(pieces) : pieces[j] # piece
    ELSE 0

\* Mutant of SplitExtRoot: the key cut at its first dot.
SplitAtFirstDot(pieces) ==
    IF \E i \in 1..Len(pieces) : pieces[i] = "."
    THEN SubSeq(pieces, 1, (CHOOSE i \in 1..Len(pieces) :
                              pieces[i] = "." /\ \A j \in 1..(i - 1) : pieces[j] # ".") - 1)
    ELSE pieces

\* os.path.splitext(key)[0]: the key up to the last dot of its last path
\* component, unless only dots precede that dot in the component.
SplitExtRoot(pieces) ==
    LET sepIndex == LastIndex(pieces, "/")
        dotIndex == LastIndex(pieces, ".")
    IN  IF dotIndex > sepIndex
           /\ \E i \in (sepIndex + 1)..(dotIndex - 1) : pieces[i] # "."
        THEN SubSeq(pieces, 1, dotIndex - 1)
        ELSE pieces

\* dest_key = f"extracted/{os.path.splitext(key)[0]}.txt"
DestKey(key) == KeyText(<<"extracted", "/">> \o SplitExtRoot(key.chars) \o <<".", "txt">>)

\* record.get("s3", {}).get("bucket", {}).get("name"), and the same for
\* the object key
BucketNameOf(record) == Get(Get(Get(record, "s3", EmptyObject), "bucket", EmptyObject), "name", PyNone)
ObjectKeyOf(record) == Get(Get(Get(record, "s3", EmptyObject), "object", EmptyObject), "key", PyNone)

\* Lines 38-43: the entry is passed over.
Skips(record) ==
    \/ ~Truthy(BucketNameOf(record))
    \/ ~Truthy(ObjectKeyOf(record))
    \/ /\ "UPLOADS_BUCKET_NAME" \in env
       /\ BucketNameOf(record) # KeyText(<<EnvValue("UPLOADS_BUCKET_NAME")>>)

\* The text PyPDF2 extracts from the object of a key.
ExtractedText(key) == <<"text of ">> \o key.chars

\* s3.put_object on the destination bucket: the object is created, or
\* replaces the object of that key.
PutText(objects, key, body) ==
    {o \in objects : o.key # key} \cup {[key |-> key, body |-> body]}

\* What processing one entry comes to: done, or the exception of
\* get_object, of PdfReader / extract_text, or of put_object.
ExtractOutcomes == {"ok", "NoSuchKey", "PdfReadError", "PutObjectError"}

ExIdle == [pc |-> "idle", records |-> <<>>, i |-> 1, outputs |-> <<>>,
           fetched |-> <<>>, outcomes |-> <<>>, result |-> NoResponse]

\* Lines 27-34: the settings, and the Records of the event.
ExtractBegin(event) ==
    /\ ex.pc = "idle"
    /\ ex' = [ExIdle EXCEPT !.pc = "loop", !.records = Get(event, "Records", <<>>)]
    /\ calls' = <<>>
    /\ UNCHANGED <<env, now, resp, extracted, NotExtract>>

\* Mutant of ExtractStep: the exception of one entry caught, the entry
\* passed over and the loop going on.
ExtractStepCaught(outcome) ==
    /\ ex.pc = "loop"
    /\ ex.i <= Len(ex.records)
    /\ LET record == ex.records[ex.i]
           key == ObjectKeyOf(record)
           stored == "EXTRACTED_BUCKET_NAME" \in env /\ outcome = "ok" /\ ~Skips(record)
       IN  /\ ex' = IF Skips(record) THEN [ex EXCEPT !.i = @ + 1]
                    ELSE IF outcome # "ok"
                    THEN [ex EXCEPT !.i = @ + 1, !.fetched = Append(@, ex.i),
                                    !.outcomes = Append(@, outcome)]
                    ELSE [ex EXCEPT !.i = @ + 1, !.fetched = Append(@, ex.i),
                                    !.outcomes = Append(@, outcome),
                                    !.outputs = Append(@,
                                       IF "EXTRACTED_BUCKET_NAME" \in env
                                       THEN [source |-> key, destination |-> DestKey(key)]
                                       ELSE [source |-> key, text |-> ExtractedText(key)])]
           /\ extracted' = IF stored THEN PutText(extracted, DestKey(key), ExtractedText(key))
                           ELSE extracted
           /\ calls' = IF Skips(record) THEN <<>>
                       ELSE IF stored THEN <<"s3.get_object", "s3.put_object">>
                       ELSE <<"s3.get_object">>
    /\ UNCHANGED <<env, now, resp, NotExtract>>

\* Lines 34-59, one pass of the loop: the entry passed over, or fetched,
\* extracted and (with a destination bucket) stored; an exception of any of
\* the three ends the invocation.
ExtractStep(outcome) ==
    /\ ex.pc = "loop"
    /\ ex.i <= Len(ex.records)
    /\ LET record == ex.records[ex.i]
           key == ObjectKeyOf(record)
           fails == \/ outcome \in {"NoSuchKey", "PdfReadError"}
                    \/ outcome = "PutObjectError" /\ "EXTRACTED_BUCKET_NAME" \in env
           stored == "EXTRACTED_BUCKET_NAME" \in env /\ ~fails /\ ~Skips(record)
       IN  /\ ex' = IF Skips(record) THEN [ex EXCEPT !.i = @ + 1]
                    ELSE IF fails
                    THEN [ex EXCEPT !.pc = "done", !.fetched = Append(@, ex.i),
                                    !.outcomes = Append(@, outcome),
                                    !.result = Unhandled("extract_text", outcome)]
                    ELSE [ex EXCEPT !.i = @ + 1, !.fetched = Append(@, ex.i),
                                    !.outcomes = Append(@, "ok"),
                                    !.outputs = Append(@,
                                       IF "EXTRACTED_BUCKET_NAME" \in env
                                       THEN [source |-> key, destination |-> DestKey(key)]
                                       ELSE [source |-> key, text |-> ExtractedText(key)])]
           /\ extracted' = IF stored THEN PutText(extracted, DestKey(key), ExtractedText(key))
                           ELSE extracted
           /\ calls' = IF Skips(record) THEN <<>>
                       ELSE IF "EXTRACTED_BUCKET_NAME" \in env
                               /\ outcome \in {"ok", "PutObjectError"}
                       THEN <<"s3.get_object", "s3.put_object">>
                       ELSE <<"s3.get_object">>
    /\ UNCHANGED <<env, now, resp, NotExtract>>

\* Line 61: after the last record, the response.
ExtractReturn ==
    /\ ex.pc = "loop"
    /\ ex.i > Len(ex.records)
    /\ ex' = [ex EXCEPT !.pc = "done",
                        !.result = Response("extract_text", 200, ex.outputs)]
    /\ calls' = <<>>
    /\ UNCHANGED <<env, now, resp, extracted, NotExtract>>

ExtractEnd ==
    /\ ex.pc = "done"
    /\ ex' = ExIdle
    /\ UNCHANGED <<env, now, resp, calls, extracted, NotExtract>>

(***************************************************************************)
(* Requests.                                                               *)
(***************************************************************************)
SubmitPayload(u, a, c) == [userId |-> u, answers |-> a, correctAnswers |-> c]

\* Bodies no handler finds its keys in.
BadBodies == {NoBody, StrBody("plain", Malformed), StrBody("plain", ArrayJson),
              StrBody("plain", ObjectJson(EmptyObject))}

\* Every submission of lists up to MaxLen long, plain or base64, and the
\* requests the parse refuses.
ScoreEvents ==
    {Event(b64, StrBody(IF b64 THEN "base64" ELSE "plain", ObjectJson(SubmitPayload(u, a, c)))) :
        b64 \in BOOLEAN, u \in {"u1"},
        a \in SeqsUpTo(Choices, MaxLen), c \in SeqsUpTo(Choices, MaxLen)}
    \cup {Event(FALSE, StrBody("plain", ObjectJson(
            [userId |-> "u1", quizId |-> "q1", answers |-> <<"A">>, correctAnswers |-> <<"A", "B">>])))}
    \cup {Event(FALSE, b) : b \in BadBodies}
    \cup {Event(TRUE, StrBody("plain", ObjectJson(SubmitPayload("u1", <<"A">>, <<"A">>)))),
          Event(TRUE, NoBody),
          Event(FALSE, StrBody("plain", ObjectJson([userId |-> "u1", answers |-> <<"A">>])))}

QuizEvents ==
    {Event(FALSE, StrBody("plain", ObjectJson(SubmitPayload(u, ac[1], ac[2])))) :
        u \in Users, ac \in {<<<<"A">>, <<"A">>>>, <<<<"A", "B">>, <<"B">>>>}}

ProgressPayload(u, x) == [userId |-> u, xp |-> x]

ProgressEvents ==
    {Event(FALSE, StrBody("plain", ObjectJson(ProgressPayload(u, x)))) :
        u \in Users, x \in {PyInt(2), PyInt(-1), PyStr(2), PyFloat(5, 2), PyWord, PyNone}}
    \cup {Event(FALSE, StrBody("plain", ObjectJson([userId |-> u]))) : u \in Users}
    \cup {Event(TRUE, StrBody("base64", ObjectJson(ProgressPayload("u1", PyInt(2))))),
          Event(TRUE, StrBody("plain", ObjectJson(ProgressPayload("u1", PyInt(2)))))}
    \cup {Event(FALSE, b) : b \in BadBodies}

PerfEvents ==
    {Event(FALSE, StrBody("plain", ObjectJson([userId |-> u]))) : u \in Users}
    \cup {Event(FALSE, b) : b \in BadBodies}

(***************************************************************************)
(* Specifications.                                                         *)
(***************************************************************************)
\* The state of a fresh deployment: empty stores, no invocation in flight.
InitStores ==
    /\ now = 0
    /\ resp = NoResponse
    /\ calls = <<>>
    /\ uploads = {}
    /\ uuids = 0
    /\ dl = DlIdle
    /\ resultsTable = {}
    /\ sub = [p \in Procs |-> SubIdle]
    /\ submissions = 0
    /\ progressTable = {}
    /\ prog = [p \in Procs |-> ProgIdle]
    /\ updates = [u \in Users |-> [n |-> 0, sum |-> 0]]
    /\ initialized = FALSE
    /\ apps = {}
    /\ jwt = [p \in Procs |-> JwtIdle]
    /\ sm = SmIdle
    /\ ex = ExIdle
    /\ extracted = {}

InitQuiz ==
    /\ env \in {{}, {"QUIZ_RESULTS_TABLE"}}
    /\ openai = TRUE
    /\ bucket = <<>>
    /\ InitStores

\* Quiz submission, one invocation at a time.
NextScore ==
    \/ \E event \in ScoreEvents : SubmitBegin(1, event)
    \/ SubmitPut(1)
    \/ SubmitEnd(1)

SpecScore == InitQuiz /\ [][NextScore]_vars

\* Concurrent submissions and performance queries over one results table.
NextQuiz ==
    \/ \E p \in Procs, event \in QuizEvents : SubmitBegin(p, event)
    \/ \E p \in Procs : SubmitPut(p)
    \/ \E p \in Procs : SubmitEnd(p)
    \/ \E event \in PerfEvents : GetPerformance(event)
    \/ Tick

SpecQuiz == InitQuiz /\ [][NextQuiz]_vars

InitProgress ==
    /\ env \in {{}, {"PROGRESS_TABLE"}}
    /\ openai = TRUE
    /\ bucket = <<>>
    /\ InitStores

\* Concurrent progress updates over one progress table.
NextProgress ==
    \/ \E p \in Procs, event \in ProgressEvents : ProgressBegin(p, event)
    \/ \E p \in Procs : ProgressUpdate(p)
    \/ \E p \in Procs : ProgressEnd(p)
    \/ Tick

SpecProgress == InitProgress /\ [][NextProgress]_vars

PapersEvents ==
    {[action |-> a] : a \in {"download_papers", "list_papers", "delete_papers"}}
    \cup {EmptyObject}

\* The bucket as the deployment finds it: empty, or holding objects already.
InitPapers ==
    /\ env \in {{}, {"BUCKET_NAME"}}
    /\ openai = TRUE
    /\ bucket \in {Archive(n) : n \in {0, 2, MaxKeys - 2, MaxKeys + 1}}
    /\ InitStores

NextPapers ==
    \/ \E event \in PapersEvents : StartDownload(event)
    \/ \E outcome \in FetchOutcomes : DownloadStep(outcome)
    \/ DownloadEnd
    \/ \E event \in PapersEvents : ListPapers(event)
    \/ \E event \in PapersEvents : UnsupportedAction(event)

SpecPapers == InitPapers /\ [][NextPapers]_vars

\* The settings the handlers read.
AllSettings == {"QUIZ_RESULTS_TABLE", "PROGRESS_TABLE", "UPLOADS_BUCKET_NAME",
                "BUCKET_NAME", "OPENAI_API_KEY"}

\* The requests one handler gets: its payload `good`, plain and base64; an
\* object lacking required keys; text that is no JSON; JSON that is no
\* object; no body; and bodies whose encoding the flag misstates.
InputEvents(good, partial) ==
    {Event(FALSE, StrBody("plain", j)) :
        j \in {ObjectJson(good), ObjectJson(partial), ObjectJson(EmptyObject), Malformed, ArrayJson}}
    \cup {Event(TRUE, StrBody("base64", j)) :
        j \in {ObjectJson(good), ObjectJson(partial), Malformed}}
    \cup {Event(FALSE, NoBody), Event(TRUE, NoBody),
          Event(TRUE, StrBody("plain", ObjectJson(good))),
          Event(FALSE, StrBody("base64", ObjectJson(good)))}

SubmitInputs == InputEvents(SubmitPayload("u1", <<"A">>, <<"A">>), [userId |-> "u1", answers |-> <<"A">>])
PerformanceInputs == InputEvents([userId |-> "u1"], [user |-> "u1"])
ProgressInputs == InputEvents(ProgressPayload("u1", PyInt(2)), [xp |-> PyInt(2)])
FlashcardInputs == InputEvents([summary |-> SummaryText("s"), topicId |-> "t1"], [topicId |-> "t1"])
GenerateQuizInputs == InputEvents([summary |-> SummaryText("s")], [text |-> SummaryText("s")])
UploadInputs == InputEvents([fileName |-> "f.pdf", fileContent |-> FileContent(TRUE)], [fileName |-> "f.pdf"])

\* What the language model answers in these runs.
InputReplies == {LlmError, LlmJson(JsonList(<<ObjectJson([front |-> "f", back |-> "b"])>>))}

\* No invocation is in flight.
Quiet == sub[1].pc = "idle" /\ prog[1].pc = "idle" /\ dl.pc = "idle"

InitInput ==
    /\ env \in {AllSettings, {}}
    /\ openai = TRUE
    /\ bucket = <<>>
    /\ InitStores

\* The six handlers that parse a request body, one request at a time.
NextInput ==
    \/ \E event \in SubmitInputs : Quiet /\ SubmitBegin(1, event)
    \/ SubmitPut(1)
    \/ SubmitEnd(1)
    \/ \E event \in PerformanceInputs : Quiet /\ GetPerformance(event)
    \/ \E event \in ProgressInputs : Quiet /\ ProgressBegin(1, event)
    \/ ProgressUpdate(1)
    \/ ProgressEnd(1)
    \/ \E event \in FlashcardInputs, reply \in InputReplies : Quiet /\ GenerateFlashcards(event, reply)
    \/ \E event \in GenerateQuizInputs, reply \in InputReplies : Quiet /\ GenerateQuiz(event, reply)
    \/ \E event \in UploadInputs : Quiet /\ UploadFile(event)

SpecInput == InitInput /\ [][NextInput]_vars

ConfigSettings == {"QUIZ_RESULTS_TABLE", "PROGRESS_TABLE", "UPLOADS_BUCKET_NAME", "BUCKET_NAME"}

InitConfig ==
    /\ env \in {{}, ConfigSettings}
    /\ openai = TRUE
    /\ bucket = <<>>
    /\ InitStores

\* The four handlers that require a setting, one request at a time.
NextConfig ==
    \/ \E event \in PerformanceInputs : Quiet /\ GetPerformance(event)
    \/ \E event \in ProgressInputs : Quiet /\ ProgressBegin(1, event)
    \/ ProgressUpdate(1)
    \/ ProgressEnd(1)
    \/ \E event \in UploadInputs : Quiet /\ UploadFile(event)
    \/ \E event \in PapersEvents : Quiet /\ StartDownload(event)
    \/ \E outcome \in {"ok", "HTTPError"} : DownloadStep(outcome)
    \/ DownloadEnd
    \/ \E event \in PapersEvents : Quiet /\ ListPapers(event)
    \/ \E event \in PapersEvents : Quiet /\ UnsupportedAction(event)

SpecConfig == InitConfig /\ [][NextConfig]_vars

\* Header values: empty, blank, well-formed in several spellings, and malformed.
HeaderValues ==
    {HeaderText(c) : c \in {<<>>, <<" ">>,
                            <<"Bearer", " ", "issued">>, <<"bearer", " ", "issued">>,
                            <<"BEARER", " ", "forged">>, <<"Bearer", " ", "expired">>,
                            <<" ", "Bearer", " ", "issued", " ">>,
                            <<"Basic", " ", "issued">>, <<"Bearer">>,
                            <<"Bearer", " ", "issued", " ", "extra">>}}

HeaderNames == {"authorization", "Authorization"}

\* Events without headers, and with any headers under the two names.
JwtEvents ==
    {EmptyObject}
    \cup {[headers |-> h] : h \in UNION {[names -> HeaderValues] : names \in SUBSET HeaderNames}}

AllVerdicts == {"none", "accepted", "CertificateFetchError", "ExpiredIdTokenError",
                "InvalidIdTokenError"}

InitJwt ==
    /\ env = {"FIREBASE_PROJECT_ID"}
    /\ openai = TRUE
    /\ bucket = <<>>
    /\ InitStores

\* Token verification in one process, one invocation at a time.
NextJwt ==
    \/ \E event \in JwtEvents : JwtCheck(1, event)
    \/ JwtInitializeApp(1)
    \/ JwtSetInitialized(1)
    \/ \E verdict \in AllVerdicts : JwtHandle(1, verdict)
    \/ JwtEnd(1)

SpecJwt == InitJwt /\ [][NextJwt]_vars

\* A key the payload does not have.
Absent == [type |-> "absent"]

\* The payload with the text and fileContent given, if any.
SummaryPayload(text, file) ==
    [k \in {x \in {"text"} : text # Absent} \cup {x \in {"fileContent"} : file # Absent} |->
        IF k = "text" THEN text ELSE file]

\* Text lengths around the limit of the fallback.
SummaryLens == {1, MaxSummary - 1, MaxSummary, MaxSummary + 1, 2 * MaxSummary}

SummaryTexts ==
    {Absent, StrValue(<<>>), PyInt(5), StrValue(<<" ">>)} \cup {StrValue(TextOf(n)) : n \in SummaryLens}

SummaryFiles ==
    {Absent, StrValue(<<>>), NoPdf, PdfFile(<<PyNone>>),
     PdfFile(<<StrValue(TextOf(3)), PyNone, StrValue(TextOf(2))>>)}

SummaryEvents ==
    {Event(FALSE, StrBody("plain", ObjectJson(SummaryPayload(t, f)))) :
        t \in SummaryTexts, f \in SummaryFiles}
    \cup {Event(TRUE, StrBody("base64", ObjectJson(SummaryPayload(StrValue(TextOf(MaxSummary + 1)), Absent)))),
          Event(TRUE, StrBody("plain", ObjectJson(SummaryPayload(StrValue(TextOf(1)), Absent))))}
    \cup {Event(FALSE, b) : b \in BadBodies}

ChatReplies == {ChatError, ChatNoContent, ChatContent(<<>>),
                ChatContent(<<" ", "a", " ", "b", " ">>)}

InitSummary ==
    /\ env \in {{}, {"OPENAI_API_KEY"}}
    /\ openai \in BOOLEAN
    /\ bucket = <<>>
    /\ InitStores

NextSummary ==
    \/ \E event \in SummaryEvents : SummarizeBegin(event)
    \/ \E reply \in ChatReplies : SummarizeCall(reply)
    \/ SummarizeEnd

SpecSummary == InitSummary /\ [][NextSummary]_vars

\* Requests to the flashcard generator: a summary (a string, the empty
\* string, a number) with or without a topicId, and requests without one.
CardEvents ==
    {Event(FALSE, StrBody("plain", ObjectJson([summary |-> sy]))) :
        sy \in {SummaryText("s"), SummaryText(""), SummaryNumber}}
    \cup {Event(FALSE, StrBody("plain", ObjectJson([summary |-> sy, topicId |-> "t1"]))) :
        sy \in {SummaryText("s"), SummaryText("")}}
    \cup {Event(TRUE, StrBody("base64", ObjectJson([summary |-> SummaryText("s")])))}
    \cup {Event(FALSE, b) : b \in BadBodies}

\* What the language model may answer: an exception, text that is no JSON,
\* lists of cards under either naming, and JSON of other shapes.
CardReplies ==
    {LlmError, LlmText, LlmJson(JsonNumber), LlmJson(JsonString),
     LlmJson(JsonList(<<>>)),
     LlmJson(JsonList(<<ObjectJson([front |-> "f1", back |-> "b1"])>>)),
     LlmJson(JsonList(<<ObjectJson([question |-> "q1", answer |-> "a1"]),
                        ObjectJson([front |-> "", question |-> "q2", back |-> "b2"]),
                        ObjectJson([front |-> "f3"])>>)),
     LlmJson(JsonList(<<ObjectJson([front |-> "f1", back |-> "b1"]), JsonString>>)),
     LlmJson(ObjectJson([flashcards |-> JsonList(<<ObjectJson([front |-> "f1", back |-> "b1"])>>)]))}

InitCards ==
    /\ env \in {{}, {"OPENAI_API_KEY"}}
    /\ openai \in BOOLEAN
    /\ bucket = <<>>
    /\ InitStores

NextCards ==
    \E event \in CardEvents, reply \in CardReplies : GenerateFlashcards(event, reply)

SpecCards == InitCards /\ [][NextCards]_vars

\* An S3 event record for an object of a bucket.
S3Record(name, key) == [s3 |-> [bucket |-> [name |-> name], object |-> [key |-> key]]]

UploadsBucket == KeyText(<<EnvValue("UPLOADS_BUCKET_NAME")>>)
OtherBucket == KeyText(<<"other-bucket">>)

\* Records of the uploads bucket and of another bucket.
RecordPool ==
    {S3Record(UploadsBucket, KeyText(<<"a", ".", "pdf">>)),
     S3Record(UploadsBucket, KeyText(<<"dir", ".", "v1", "/", "notes">>)),
     S3Record(OtherBucket, KeyText(<<"b", ".", "pdf">>))}

\* Events with every list of up to MaxRecords records of the pool, with
\* keys of other shapes, with empty or missing fields, and without Records.
ExtractEvents ==
    {[Records |-> rs] : rs \in SeqsUpTo(RecordPool, MaxRecords)}
    \cup {[Records |-> <<S3Record(UploadsBucket, KeyText(<<".", "hidden">>)),
                         S3Record(UploadsBucket, KeyText(<<"a", ".", "tar", ".", "gz">>)),
                         S3Record(UploadsBucket, KeyText(<<"a", ".", "txt">>))>>],
          [Records |-> <<S3Record(KeyText(<<>>), KeyText(<<"a", ".", "pdf">>)),
                         S3Record(UploadsBucket, KeyText(<<>>)),
                         EmptyObject,
                         [s3 |-> [bucket |-> [name |-> UploadsBucket]]],
                         [s3 |-> [object |-> [key |-> KeyText(<<"a", ".", "pdf">>)]]],
                         S3Record(UploadsBucket, KeyText(<<"a", ".", "pdf">>))>>],
          EmptyObject}

InitExtract ==
    /\ env \in SUBSET {"UPLOADS_BUCKET_NAME", "EXTRACTED_BUCKET_NAME"}
    /\ openai = TRUE
    /\ bucket = <<>>
    /\ InitStores

NextExtract ==
    \/ \E event \in ExtractEvents : ExtractBegin(event)
    \/ \E outcome \in ExtractOutcomes : ExtractStep(outcome)
    \/ ExtractReturn
    \/ ExtractEnd

SpecExtract == InitExtract /\ [][NextExtract]_vars

\* Events for interleaved invocations: no header, a token, a malformed header.
RaceEvents ==
    {EmptyObject,
     [headers |-> [authorization |-> HeaderText(<<"Bearer", " ", "issued">>)]],
     [headers |-> [Authorization |-> HeaderText(<<"Basic", " ", "issued">>)]]}

\* Token verification in one process, the invocations interleaved at the
\* steps of _init_firebase.
NextJwtRace ==
    \/ \E p \in Procs, event \in RaceEvents : JwtCheck(p, event)
    \/ \E p \in Procs : JwtInitializeApp(p)
    \/ \E p \in Procs : JwtSetInitialized(p)
    \/ \E p \in Procs, verdict \in AllVerdicts : JwtHandle(p, verdict)
    \/ \E p \in Procs : JwtEnd(p)

SpecJwtRace == InitJwt /\ [][NextJwtRace]_vars

Spec == SpecQuiz

(***************************************************************************)
(* Claims.                                                                 *)
(***************************************************************************)
\* The request carries the keys, in a body the handler can decode.
Carries(event, keys) ==
    /\ LoadBody(event).exc = "none"
    /\ LoadBody(event).val.kind = "object"
    /\ keys \subseteq DOMAIN LoadBody(event).val.obj

PayloadOf(event) == event.body.json.obj

\* The positions, up to the shorter length, where the two lists agree.
Matches(a, c) == {i \in 1..Min(Len(a), Len(c)) : a[i] = c[i]}

\* C1: every finished submission whose request carries userId, answers and
\* correctAnswers has returned 200 with score = the number of positions below
\* the shorter length where the lists agree, and 0 <= score <= len(correctAnswers),
\* whether or not the lengths differ.
C1_ScoreIsMatchCount ==
    \A p \in Procs :
        (sub[p].pc = "done" /\ Carries(sub[p].event, {"userId", "answers", "correctAnswers"}))
        => /\ sub[p].result.kind = "response"
           /\ sub[p].result.statusCode = 200
           /\ sub[p].result.body.score =
                Cardinality(Matches(PayloadOf(sub[p].event).answers,
                                    PayloadOf(sub[p].event).correctAnswers))
           /\ sub[p].result.body.score >= 0
           /\ sub[p].result.body.score <= Len(PayloadOf(sub[p].event).correctAnswers)

\* A stored submission of lists of different lengths that scored.
C1_Witness ==
    \E p \in Procs :
        /\ sub[p].pc = "done"
        /\ Carries(sub[p].event, {"userId", "answers", "correctAnswers"})
        /\ Len(PayloadOf(sub[p].event).answers) # Len(PayloadOf(sub[p].event).correctAnswers)
        /\ sub[p].result.kind = "response"
        /\ sub[p].result.body.score >= 1
        /\ sub[p].item \in resultsTable

\* C2: after N successful submissions the results table holds N records:
\* each submission wrote its own record and none replaced an earlier one.
C2_OneRecordPerSubmission == Cardinality(resultsTable) = submissions

\* The records stored for a user, and the sum of their scores by timestamp.
UserRecords(u) == {it \in resultsTable : it.userId = u}
RECURSIVE ScoreSumUpTo(_, _)
ScoreSumUpTo(u, t) ==
    IF t < 0 THEN 0
    ELSE ScoreSumUpTo(u, t - 1) +
         (IF \E it \in UserRecords(u) : it.timestamp = t
          THEN (CHOOSE it \in UserRecords(u) : it.timestamp = t).score ELSE 0)

\* The response r reports the aggregates of user u's stored records.
ReportsAggregates(r, u) ==
    /\ r.kind = "response"
    /\ r.statusCode = 200
    /\ r.body.totalQuizzes.num = Cardinality(UserRecords(u)) * r.body.totalQuizzes.den
    /\ r.body.totalScore.num = ScoreSumUpTo(u, MaxTime) * r.body.totalScore.den
    /\ IF UserRecords(u) = {} THEN r.body.averageScore.num = 0
       ELSE r.body.averageScore.num * Cardinality(UserRecords(u))
              = ScoreSumUpTo(u, MaxTime) * r.body.averageScore.den

\* C5: with the results table configured, a performance request with a userId
\* returns 200 with totalQuizzes = the number of that user's records, totalScore
\* = the sum of their scores and averageScore = totalScore / totalQuizzes, or 0
\* when the user has no records.
C5_PerformanceAggregates ==
    [][\A event \in PerfEvents :
         (GetPerformance(event) /\ "QUIZ_RESULTS_TABLE" \in env /\ Carries(event, {"userId"}))
         => ReportsAggregates(resp', PayloadOf(event).userId)]_vars

\* The stored attribute of a user's progress record, 0 while there is none.
Stored(u, attr) == IfNotExists(progressTable, u, attr)
HasProgress(u) == \E it \in progressTable : it.userId = u

C4_NeverDecreases ==
    [][\A u \in Users : /\ Stored(u, "xp")' >= Stored(u, "xp")
                        /\ Stored(u, "streak")' >= Stored(u, "streak")]_vars

\* The error strings the loop can record for a key.
ErrorEntries(key) == {key \o ": error " \o e : e \in FetchOutcomes \ {"ok"}}

\* C9: with BUCKET_NAME configured, download_papers ends with status 200 and
\* a saved list of one entry per document of the mapping, in its order:
\* <name>.pdf if the document's download and upload succeeded, else an error
\* string for it; every document is attempted whatever happened to the ones
\* before it, and the bucket holds <name>.pdf for each document reported saved.
C9_DownloadIsolation ==
    (dl.pc = "done" /\ "BUCKET_NAME" \in env)
    => /\ dl.result.kind = "response"
       /\ dl.result.statusCode = 200
       /\ Len(dl.result.body.saved) = Len(ExamNames)
       /\ Len(dl.outcomes) = Len(ExamNames)
       /\ \A i \in 1..Len(ExamNames) :
            IF dl.outcomes[i] = "ok"
            THEN /\ dl.result.body.saved[i] = ExamNames[i] \o ".pdf"
                 /\ \E j \in 1..Len(bucket) : bucket[j] = ExamNames[i] \o ".pdf"
            ELSE dl.result.body.saved[i] \in ErrorEntries(ExamNames[i] \o ".pdf")

\* A batch whose first document failed and whose later documents were stored.
C9_Witness ==
    /\ dl.pc = "done"
    /\ "BUCKET_NAME" \in env
    /\ dl.outcomes = <<"HTTPError", "ok", "ok">>
    /\ dl.result.body.saved[3] = "SSC_Model_Question_Paper_English.pdf"

\* C10: with BUCKET_NAME configured, list_papers returns 200 with files = the
\* keys of all the objects in the bucket, however many, and leaves the bucket
\* as it was.
C10_ListsAllKeys ==
    [][\A event \in PapersEvents :
         (ListPapers(event) /\ "BUCKET_NAME" \in env)
         => /\ resp'.kind = "response"
            /\ resp'.statusCode = 200
            /\ resp'.body.files = bucket
            /\ bucket' = bucket]_vars

\* The body of the request, encoded as the flag says, is text that is no
\* JSON, or JSON that does not have all the keys (an object without one of
\* them, or a value that is no object).
InputError(event, keys) ==
    /\ event.body.kind = "str"
    /\ event.body.enc = (IF event.isBase64Encoded THEN "base64" ELSE "plain")
    /\ \/ event.body.json.kind = "malformed"
       \/ event.body.json.kind = "array"
       \/ event.body.json.kind = "object" /\ ~(keys \subseteq DOMAIN event.body.json.obj)

\* A 400 response whose body has an error field.
IsInputErrorResponse(r) ==
    /\ r.kind = "response"
    /\ r.statusCode = 400
    /\ "error" \in DOMAIN r.body

stores == <<resultsTable, progressTable, uploads, bucket>>

\* C6: in each of the six body-parsing handlers, a request whose body is
\* malformed JSON or lacks a required key gets a 400 response with an error
\* field, and the handler writes to no store.
C6_InputErrorEnvelope ==
    [][/\ \A event \in SubmitInputs :
            (InputError(event, {"userId", "answers", "correctAnswers"}) /\ SubmitBegin(1, event))
            => IsInputErrorResponse(sub'[1].result) /\ sub'[1].pc = "done" /\ stores' = stores
       /\ \A event \in PerformanceInputs :
            (InputError(event, {"userId"}) /\ GetPerformance(event))
            => IsInputErrorResponse(resp') /\ stores' = stores
       /\ \A event \in ProgressInputs :
            (InputError(event, {"userId"}) /\ ProgressBegin(1, event))
            => IsInputErrorResponse(prog'[1].result) /\ prog'[1].pc = "done" /\ stores' = stores
       /\ \A event \in FlashcardInputs, reply \in InputReplies :
            (InputError(event, {"summary"}) /\ GenerateFlashcards(event, reply))
            => IsInputErrorResponse(resp') /\ stores' = stores
       /\ \A event \in GenerateQuizInputs, reply \in InputReplies :
            (InputError(event, {"summary"}) /\ GenerateQuiz(event, reply))
            => IsInputErrorResponse(resp') /\ stores' = stores
       /\ \A event \in UploadInputs :
            (InputError(event, {"fileName", "fileContent"}) /\ UploadFile(event))
            => IsInputErrorResponse(resp') /\ stores' = stores]_vars

\* The part of C6 about the stores: a request with such a body makes no
\* handler call an external service or change a store, whatever it answers.
InputErrorWritesNothing ==
    [][/\ \A event \in SubmitInputs :
            (InputError(event, {"userId", "answers", "correctAnswers"}) /\ SubmitBegin(1, event))
            => sub'[1].pc = "done" /\ calls' = <<>> /\ stores' = stores
       /\ \A event \in PerformanceInputs :
            (InputError(event, {"userId"}) /\ GetPerformance(event))
            => calls' = <<>> /\ stores' = stores
       /\ \A event \in ProgressInputs :
            (InputError(event, {"userId"}) /\ ProgressBegin(1, event))
            => prog'[1].pc = "done" /\ calls' = <<>> /\ stores' = stores
       /\ \A event \in FlashcardInputs, reply \in InputReplies :
            (InputError(event, {"summary"}) /\ GenerateFlashcards(event, reply))
            => calls' = <<>> /\ stores' = stores
       /\ \A event \in GenerateQuizInputs, reply \in InputReplies :
            (InputError(event, {"summary"}) /\ GenerateQuiz(event, reply))
            => calls' = <<>> /\ stores' = stores
       /\ \A event \in UploadInputs :
            (InputError(event, {"fileName", "fileContent"}) /\ UploadFile(event))
            => calls' = <<>> /\ stores' = stores]_vars

\* The response {"error": "<setting> not configured"} with status 500.
NotConfigured(handler, setting) ==
    Response(handler, 500, ErrorBody(setting \o " not configured"))

\* What the document handler answers in its place.
NotSet(handler, setting) ==
    Response(handler, 500, ErrorBody(setting \o " environment variable not set"))

\* C7 as stated: each handler with a required setting (performance, progress,
\* upload, and the document handler's two actions) answers an invocation in
\* which the setting is absent with 500 and {"error": "<setting> not
\* configured"}, and calls no external store.
C7_ConfigurationErrorEnvelope ==
    [][/\ \A event \in PerformanceInputs :
            ("QUIZ_RESULTS_TABLE" \notin env /\ GetPerformance(event))
            => resp' = NotConfigured("get_performance", "QUIZ_RESULTS_TABLE") /\ calls' = <<>>
       /\ \A event \in ProgressInputs :
            ("PROGRESS_TABLE" \notin env /\ ProgressBegin(1, event))
            => /\ prog'[1].result = NotConfigured("save_xp_badge_progress", "PROGRESS_TABLE")
               /\ prog'[1].pc = "done" /\ calls' = <<>>
       /\ \A event \in UploadInputs :
            ("UPLOADS_BUCKET_NAME" \notin env /\ UploadFile(event))
            => resp' = NotConfigured("upload_handler", "UPLOADS_BUCKET_NAME") /\ calls' = <<>>
       /\ \A event \in PapersEvents :
            ("BUCKET_NAME" \notin env /\ StartDownload(event))
            => /\ dl'.result = NotConfigured("papers_handler", "BUCKET_NAME")
               /\ dl'.pc = "done" /\ calls' = <<>>
       /\ \A event \in PapersEvents :
            ("BUCKET_NAME" \notin env /\ ListPapers(event))
            => resp' = NotConfigured("papers_handler", "BUCKET_NAME") /\ calls' = <<>>]_vars

\* int() accepts the value: a number, or a string that spells an integer.
Numeric(x) == x.type \in {"int", "float"} \/ (x.type = "str" /\ x.den # 0)

\* The request passes the input checks of the performance handler, and of
\* the progress handler.
PassesPerformanceChecks(event) == Carries(event, {"userId"})
PassesProgressChecks(event) ==
    /\ Carries(event, {"userId"})
    /\ "xp" \in DOMAIN LoadBody(event).val.obj => Numeric(LoadBody(event).val.obj["xp"])

\* The outcome is not a configuration error: a 400 response, or an exception.
IsInputFailure(r) == r.kind = "raised" \/ (r.kind = "response" /\ r.statusCode = 400)

\* C7, amended: with its setting absent no handler calls an external store
\* or changes one; upload answers every request with 500 and "UPLOADS_BUCKET_NAME
\* not configured"; performance and progress answer 500 and "<setting> not
\* configured" to the requests that pass their input checks, which come
\* first, and with the input failure to the others; the document handler
\* answers download_papers and list_papers with 500 and "BUCKET_NAME
\* environment variable not set".
C7_ConfigurationErrorAmended ==
    [][/\ \A event \in PerformanceInputs :
            ("QUIZ_RESULTS_TABLE" \notin env /\ GetPerformance(event))
            => /\ IF PassesPerformanceChecks(event)
                  THEN resp' = NotConfigured("get_performance", "QUIZ_RESULTS_TABLE")
                  ELSE IsInputFailure(resp')
               /\ calls' = <<>> /\ stores' = stores
       /\ \A event \in ProgressInputs :
            ("PROGRESS_TABLE" \notin env /\ ProgressBegin(1, event))
            => /\ IF PassesProgressChecks(event)
                  THEN prog'[1].result = NotConfigured("save_xp_badge_progress", "PROGRESS_TABLE")
                  ELSE IsInputFailure(prog'[1].result)
               /\ prog'[1].pc = "done" /\ calls' = <<>> /\ stores' = stores
       /\ \A event \in UploadInputs :
            ("UPLOADS_BUCKET_NAME" \notin env /\ UploadFile(event))
            => /\ resp' = NotConfigured("upload_handler", "UPLOADS_BUCKET_NAME")
               /\ calls' = <<>> /\ stores' = stores
       /\ \A event \in PapersEvents :
            ("BUCKET_NAME" \notin env /\ StartDownload(event))
            => /\ dl'.result = NotSet("papers_handler", "BUCKET_NAME")
               /\ dl'.pc = "done" /\ calls' = <<>> /\ stores' = stores
       /\ \A event \in PapersEvents :
            ("BUCKET_NAME" \notin env /\ ListPapers(event))
            => /\ resp' = NotSet("papers_handler", "BUCKET_NAME")
               /\ calls' = <<>> /\ stores' = stores]_vars

\* A deployment without settings in which the progress handler has just
\* refused a well-formed request and the document handler a listing before it.
C7_Witness ==
    /\ env = {}
    /\ prog[1].pc = "done"
    /\ prog[1].result = NotConfigured("save_xp_badge_progress", "PROGRESS_TABLE")
    /\ resp = NotSet("papers_handler", "BUCKET_NAME")
    /\ calls = <<>>
    /\ progressTable = {} /\ bucket = <<>>

\* The headers of an event, and the words of a header value.
HeadersOf(event) == IF "headers" \in DOMAIN event THEN event.headers ELSE EmptyObject
Words(value) == SelectSeq(value.chars, LAMBDA w : w # " ")
IsBearerScheme(w) == w \in {"bearer", "Bearer", "BEARER"}
WellFormed(value) == Len(Words(value)) = 2 /\ IsBearerScheme(Words(value)[1])
VerifyInvoked == \E i \in 1..Len(calls) : calls[i] = "auth.verify_id_token"

\* The header an event presents: authorization, else Authorization.
HeaderPresent(event) == DOMAIN HeadersOf(event) \cap HeaderNames # {}
PresentedHeader(event) ==
    IF "authorization" \in DOMAIN HeadersOf(event) THEN HeadersOf(event)["authorization"]
    ELSE HeadersOf(event)["Authorization"]

\* The outcomes of C8 for an invocation that ended with result r, given
\* whether the event has a header and which.
VerificationOutcome(r, verdict, has_header, header) ==
    /\ r.kind = "response"
    /\ IF ~has_header
       THEN /\ r.statusCode = 401
            /\ r.body = ErrorBody("Missing Authorization header")
            /\ ~VerifyInvoked
       ELSE IF ~WellFormed(header)
       THEN /\ r.statusCode = 401
            /\ r.body = ErrorBody("Invalid authorization format")
            /\ ~VerifyInvoked
       ELSE /\ VerifyInvoked
            /\ verdict \in Verdicts(Words(header)[2])
            /\ IF verdict = "accepted"
               THEN r.statusCode = 200 /\ r.body = [claims |-> Decoded(Words(header)[2])]
               ELSE r.statusCode = 401 /\ "error" \in DOMAIN r.body

\* C8 as stated: every event gets a response; 401 "Missing Authorization
\* header" when neither authorization nor Authorization is present, 401 with
\* a format error when the header is not two whitespace-separated parts with
\* first part bearer in any case, 401 when the provider rejects the token,
\* 200 with the decoded claims exactly when it accepts; no verification for a
\* missing or malformed header.
C8_VerificationOutcomes ==
    jwt[1].pc = "done"
    => VerificationOutcome(jwt[1].result, jwt[1].verdict,
                           HeaderPresent(jwt[1].event), PresentedHeader(jwt[1].event))

\* The header the handler goes by: the first of authorization, Authorization
\* that is present and not the empty string.
NonEmptyHeaders(event) ==
    {n \in DOMAIN HeadersOf(event) \cap HeaderNames : HeadersOf(event)[n].chars # <<>>}
EffectiveHeader(event) ==
    IF "authorization" \in NonEmptyHeaders(event) THEN HeadersOf(event)["authorization"]
    ELSE HeadersOf(event)["Authorization"]

\* C8, amended: as C8, with "Missing Authorization header" when neither
\* authorization nor Authorization is present with a non-empty value, and the
\* other outcomes decided by the first of the two that is non-empty.
C8_VerificationOutcomesAmended ==
    jwt[1].pc = "done"
    => VerificationOutcome(jwt[1].result, jwt[1].verdict,
                           NonEmptyHeaders(jwt[1].event) # {}, EffectiveHeader(jwt[1].event))

\* An event with an empty authorization header and a token under
\* Authorization in upper-case spelling of the scheme, which the provider
\* rejected, in a process whose client is initialized.
C8_Witness ==
    /\ jwt[1].pc = "done"
    /\ initialized
    /\ jwt[1].event = [headers |-> [authorization |-> HeaderText(<<>>),
                                    Authorization |-> HeaderText(<<"BEARER", " ", "forged">>)]]
    /\ jwt[1].result.statusCode = 401
    /\ VerifyInvoked

\* The request's text, if it has one that is a non-empty string.
HasText(event) ==
    /\ Carries(event, {"text"})
    /\ PayloadOf(event).text.type = "str"
    /\ PayloadOf(event).text.chars # <<>>

\* The first MaxSummary characters of a text and "..." if it has more; the
\* text itself otherwise.
Truncation(text) ==
    IF Len(text) <= MaxSummary THEN text
    ELSE [i \in 1..(MaxSummary + 3) |-> IF i <= MaxSummary THEN text[i] ELSE "."]

\* C11: every request with a non-empty text gets 200 with a summary; when no
\* credential is configured (or the client library is absent), or the call
\* fails or gives no content, the summary is the truncation of the text.
C11_SummaryFallback ==
    (sm.pc = "done" /\ HasText(sm.event))
    => /\ sm.result.kind = "response"
       /\ sm.result.statusCode = 200
       /\ DOMAIN sm.result.body = {"summary"}
       /\ (~openai \/ "OPENAI_API_KEY" \notin env \/ sm.reply.kind # "content")
          => sm.result.body.summary = Truncation(PayloadOf(sm.event).text.chars)

\* A text one character over the limit, summarized after the call failed.
C11_Witness ==
    /\ sm.pc = "done"
    /\ HasText(sm.event)
    /\ Len(PayloadOf(sm.event).text.chars) = MaxSummary + 1
    /\ calls = <<"openai.ChatCompletion.create">>
    /\ sm.reply = ChatError
    /\ Len(sm.result.body.summary) = MaxSummary + 3
    /\ sm.result.body.summary[MaxSummary] = "0"

\* The response is 200 with a list of flashcards of exactly the fields id,
\* front, back, topicId, for the topic of the request, with distinct ids.
IsNormalized(r, event) ==
    /\ r.kind = "response"
    /\ r.statusCode = 200
    /\ DOMAIN r.body = {"flashcards"}
    /\ \A i \in 1..Len(r.body.flashcards) :
         /\ DOMAIN r.body.flashcards[i] = {"id", "front", "back", "topicId"}
         /\ r.body.flashcards[i].topicId =
              (IF "topicId" \in DOMAIN PayloadOf(event) THEN PayloadOf(event).topicId ELSE "general")
         /\ \A j \in 1..Len(r.body.flashcards) :
              i # j => r.body.flashcards[i].id # r.body.flashcards[j].id

\* The list is the one placeholder card.
IsPlaceholder(r) ==
    /\ Len(r.body.flashcards) = 1
    /\ r.body.flashcards[1].front = "What is the purpose of flashcards?"
    /\ r.body.flashcards[1].back =
         "Flashcards are used as a study aid to improve memory through spaced repetition."

\* C12: every request whose body has a summary (a string, the empty one
\* included) gets 200 with a list of normalized flashcards, whatever the
\* language model returns; without a credential, on a failed call or on a
\* reply that is no JSON, the list is the single placeholder card.
C12_FlashcardNormalization ==
    [][\A event \in CardEvents, reply \in CardReplies :
         (/\ Carries(event, {"summary"})
          /\ PayloadOf(event).summary.type = "str"
          /\ GenerateFlashcards(event, reply))
         => /\ IsNormalized(resp', event)
            /\ (~openai \/ "OPENAI_API_KEY" \notin env \/ reply.kind # "json")
               => IsPlaceholder(resp')]_vars

\* The part of C12 that holds: the same, for the replies that are no JSON
\* or are a JSON list of objects.
CardsFromListsNormalized ==
    [][\A event \in CardEvents, reply \in CardReplies :
         (/\ Carries(event, {"summary"})
          /\ PayloadOf(event).summary.type = "str"
          /\ reply.kind = "json"
             => /\ reply.val.kind = "list"
                /\ \A i \in 1..Len(reply.val.items) : reply.val.items[i].kind = "object"
          /\ GenerateFlashcards(event, reply))
         => /\ IsNormalized(resp', event)
            /\ (~openai \/ "OPENAI_API_KEY" \notin env \/ reply.kind # "json")
               => IsPlaceholder(resp')]_vars

\* The bucket name and the object key of a record, PyNone if it has none.
RecordField(record, part, field) ==
    IF "s3" \in DOMAIN record /\ part \in DOMAIN record.s3 /\ field \in DOMAIN record.s3[part]
    THEN record.s3[part][field]
    ELSE PyNone
IsAbsent(value) == value = PyNone \/ value.chars = <<>>

\* The entries C13 has skipped: bucket name or key absent (or empty), or a
\* bucket other than the source bucket, if one is configured.
IsSkipped(record) ==
    \/ IsAbsent(RecordField(record, "bucket", "name"))
    \/ IsAbsent(RecordField(record, "object", "key"))
    \/ /\ "UPLOADS_BUCKET_NAME" \in env
       /\ RecordField(record, "bucket", "name").chars # <<"examfleet-UPLOADS_BUCKET_NAME">>

\* The positions of the entries that are not skipped, in event order.
Kept(records) ==
    SelectSeq([i \in 1..Len(records) |-> i], LAMBDA i : ~IsSkipped(records[i]))

\* The keys of the model without their extension.
WithoutExtension(pieces) ==
    IF pieces = <<"a", ".", "pdf">> \/ pieces = <<"a", ".", "txt">> THEN <<"a">>
    ELSE IF pieces = <<"b", ".", "pdf">> THEN <<"b">>
    ELSE IF pieces = <<"a", ".", "tar", ".", "gz">> THEN <<"a", ".", "tar">>
    ELSE pieces    \* dir.v1/notes and .hidden have none

\* The output record of an entry.
OutputFor(record) ==
    LET key == RecordField(record, "object", "key")
    IN  IF "EXTRACTED_BUCKET_NAME" \in env
        THEN [source |-> key,
              destination |-> KeyText(<<"extracted", "/">> \o WithoutExtension(key.chars)
                                        \o <<".", "txt">>)]
        ELSE [source |-> key, text |-> <<"text of ">> \o key.chars]

\* C13: no skipped entry is ever fetched, and the objects written are those
\* of entries fetched; when every processed entry succeeded the invocation
\* ends with 200 and one output record per entry that is not skipped, in
\* event order: {source, destination = extracted/<key without extension>.txt}
\* with a destination bucket, {source, text} without.
C13_ExtractionFiltering ==
    /\ \A j \in 1..Len(ex.fetched) : ~IsSkipped(ex.records[ex.fetched[j]])
    /\ \A o \in extracted :
         \E event \in ExtractEvents, i \in 1..(MaxRecords + 3) :
            /\ "Records" \in DOMAIN event /\ i <= Len(event.Records)
            /\ ~IsSkipped(event.Records[i])
            /\ "EXTRACTED_BUCKET_NAME" \in env
            /\ o.key = OutputFor(event.Records[i]).destination
    /\ (ex.pc = "done" /\ \A j \in 1..Len(ex.outcomes) : ex.outcomes[j] = "ok")
       => /\ ex.result.kind = "response"
          /\ ex.result.statusCode = 200
          /\ ex.fetched = Kept(ex.records)
          /\ Len(ex.result.body) = Len(Kept(ex.records))
          /\ \A j \in 1..Len(Kept(ex.records)) :
               ex.result.body[j] = OutputFor(ex.records[Kept(ex.records)[j]])

\* An event of keys of several shapes, all extracted into the destination bucket.
C13_Witness ==
    /\ ex.pc = "done"
    /\ env = {"UPLOADS_BUCKET_NAME", "EXTRACTED_BUCKET_NAME"}
    /\ ex.result.kind = "response"
    /\ Len(ex.result.body) = 3
    /\ ex.result.body[2].destination = KeyText(<<"extracted", "/", "a", ".", "tar", ".", "txt">>)
    /\ Cardinality(extracted) >= 2

\* C15: with a destination bucket, when the fetch, the extraction or the
\* write of a processed entry fails, the invocation has ended with the
\* exception and no response; the objects written for the entries processed
\* before it are in the destination bucket, and the failed entry is the last
\* one processed.
C15_NotAtomic ==
    (/\ ex.pc = "done"
     /\ "EXTRACTED_BUCKET_NAME" \in env
     /\ \E j \in 1..Len(ex.outcomes) : ex.outcomes[j] # "ok")
    => /\ ex.result.kind = "raised"
       /\ ex.outcomes[Len(ex.outcomes)] # "ok"
       /\ \A j \in 1..(Len(ex.outcomes) - 1) : ex.outcomes[j] = "ok"
       /\ ex.fetched = SubSeq(Kept(ex.records), 1, Len(ex.fetched))
       /\ ex.i = ex.fetched[Len(ex.fetched)]
       /\ Len(ex.outputs) = Len(ex.fetched) - 1
       /\ \A j \in 1..(Len(ex.fetched) - 1) :
            \E o \in extracted :
               /\ o.key = OutputFor(ex.records[ex.fetched[j]]).destination
               /\ \E m \in 1..(Len(ex.fetched) - 1) :
                    o.body = <<"text of ">> \o RecordField(ex.records[ex.fetched[m]], "object", "key").chars

\* The second of three entries to process failed: the first one's text is
\* stored, the third was never fetched.
C15_Witness ==
    /\ ex.pc = "done"
    /\ "EXTRACTED_BUCKET_NAME" \in env
    /\ Len(Kept(ex.records)) = 3
    /\ ex.fetched = <<1, 2>>
    /\ ex.outcomes = <<"ok", "PdfReadError">>
    /\ ex.result.kind = "raised"
    /\ Cardinality(extracted) = 1

\* C14: under any interleaving of invocations in one process, a repeated
\* initialization is harmless: every invocation ends with a response, the
\* one its event and the provider's verdict call for.
C14_ReinitializationHarmless ==
    \A p \in Procs :
        jwt[p].pc = "done"
        => /\ jwt[p].result.kind = "response"
           /\ jwt[p].result = JwtRespond(jwt[p].event, jwt[p].verdict).resp

\* The other half of C14: once _initialized is set, no invocation that
\* starts goes on to initialize.
NoLaterInitialization ==
    [][initialized => \A p \in Procs : jwt[p].pc = "idle" => jwt'[p].pc # "init"]_vars

====
